---- MODULE Spec2Model ----
(***************************************************************************)
(* Model of the TF code reviewer agent's stateless run pipeline:           *)
(* POST /runs (run_stateless_runs_post) and POST /runs/wait                *)
(* (create_and_wait_for_stateless_run_output) of                           *)
(* app/api/routes/stateless_runs.py, with the pydantic models of           *)
(* app/models/models.py they validate against.                             *)
(*                                                                         *)
(* Python values are tagged records:                                       *)
(*   None            [t |-> "null"]                                        *)
(*   str             [t |-> "str", s |-> "..."]                            *)
(*   str holding a   [t |-> "text", toks |-> <<token, ...>>]               *)
(*     JSON document   (its characters grouped into lexical tokens)        *)
(*   int             [t |-> "int", n |-> 1]                                *)
(*   list            [t |-> "list", items |-> <<v, ...>>]                  *)
(*   dict            [t |-> "obj", keys |-> <<"k", ...>>, vals |-> <<v>>]  *)
(*     (insertion ordered, as Python dicts are)                            *)
(***************************************************************************)
EXTENDS Integers, Sequences, FiniteSets, TLC

(***************************************************************************)
(* Python / JSON values                                                    *)
(***************************************************************************)
JNull == [t |-> "null"]
JStr(x) == [t |-> "str", s |-> x]
JText(toks) == [t |-> "text", toks |-> toks]
JInt(x) == [t |-> "int", n |-> x]
JList(xs) == [t |-> "list", items |-> xs]
JObj(ks, vs) == [t |-> "obj", keys |-> ks, vals |-> vs]

IsStr(v) == v.t \in {"str", "text"}
IsDict(v) == v.t = "obj"
IsList(v) == v.t = "list"

\* key in d
HasKey(d, k) == \E i \in 1..Len(d.keys) : d.keys[i] = k

\* d[k] for a key the dict has
Get(d, k) == d.vals[CHOOSE i \in 1..Len(d.keys) : d.keys[i] = k]

\* d[k] = v: a present key keeps its position, a new key is appended
SetKey(d, k, v) ==
    IF HasKey(d, k)
    THEN JObj(d.keys, [i \in 1..Len(d.keys) |-> IF d.keys[i] = k THEN v ELSE d.vals[i]])
    ELSE JObj(Append(d.keys, k), Append(d.vals, v))

\* Python truthiness of a value (`x or default`, `if x`)
Truthy(v) ==
    CASE v.t = "null" -> FALSE
      [] v.t = "str"  -> v.s # ""
      [] v.t = "text" -> v.toks # <<>>
      [] v.t = "int"  -> v.n # 0
      [] v.t = "list" -> v.items # <<>>
      [] v.t = "obj"  -> v.keys # <<>>

(***************************************************************************)
(* json.dumps / json.loads over token sequences                            *)
(***************************************************************************)
P(c) == [k |-> "punct", c |-> c]
TStr(x) == [s |-> x, k |-> "str"]
TText(toks) == [toks |-> toks, k |-> "text"]
TInt(x) == [n |-> x, k |-> "int"]
TNull == [k |-> "null"]
\* characters that are no JSON token (free text, a truncated document)
TJunk(x) == [s |-> x, k |-> "junk"]

IsP(tk, c) == tk.k = "punct" /\ tk.c = c

RECURSIVE json_dumps(_)
RECURSIVE DumpItems(_, _)
RECURSIVE DumpMembers(_, _, _)

\* items i.. of a list, comma separated
DumpItems(xs, i) ==
    IF i > Len(xs) THEN <<>>
    ELSE (IF i > 1 THEN <<P(",")>> ELSE <<>>) \o json_dumps(xs[i]) \o DumpItems(xs, i + 1)

\* members i.. of a dict, as "key": value
DumpMembers(ks, vs, i) ==
    IF i > Len(ks) THEN <<>>
    ELSE (IF i > 1 THEN <<P(",")>> ELSE <<>>)
         \o <<TStr(ks[i]), P(":")>> \o json_dumps(vs[i]) \o DumpMembers(ks, vs, i + 1)

json_dumps(v) ==
    CASE v.t = "null" -> <<TNull>>
      [] v.t = "str"  -> <<TStr(v.s)>>
      [] v.t = "text" -> <<TText(v.toks)>>
      [] v.t = "int"  -> <<TInt(v.n)>>
      [] v.t = "list" -> <<P("[")>> \o DumpItems(v.items, 1) \o <<P("]")>>
      [] v.t = "obj"  -> <<P("{")>> \o DumpMembers(v.keys, v.vals, 1) \o <<P("}")>>

ParseFail == [ok |-> FALSE]
ParseOk(v, pos) == [ok |-> TRUE, val |-> v, pos |-> pos]

RECURSIVE ParseValue(_, _)
RECURSIVE ParseItems(_, _, _)
RECURSIVE ParseMembers(_, _, _)

\* the elements of a list after "[" (or after a ","), up to the closing "]"
ParseItems(toks, i, acc) ==
    LET r == ParseValue(toks, i) IN
    IF ~r.ok \/ r.pos > Len(toks) THEN ParseFail
    ELSE IF IsP(toks[r.pos], ",") THEN ParseItems(toks, r.pos + 1, Append(acc, r.val))
    ELSE IF IsP(toks[r.pos], "]") THEN ParseOk(JList(Append(acc, r.val)), r.pos + 1)
    ELSE ParseFail

\* the members of a dict after "{" (or after a ","), up to the closing "}";
\* a repeated key keeps its first position and takes the last value
ParseMembers(toks, i, acc) ==
    IF i + 1 > Len(toks) \/ toks[i].k # "str" \/ ~IsP(toks[i + 1], ":") THEN ParseFail
    ELSE LET r == ParseValue(toks, i + 2) IN
         IF ~r.ok \/ r.pos > Len(toks) THEN ParseFail
         ELSE LET d == SetKey(acc, toks[i].s, r.val) IN
              IF IsP(toks[r.pos], ",") THEN ParseMembers(toks, r.pos + 1, d)
              ELSE IF IsP(toks[r.pos], "}") THEN ParseOk(d, r.pos + 1)
              ELSE ParseFail

ParseValue(toks, i) ==
    IF i > Len(toks) THEN ParseFail
    ELSE LET tk == toks[i] IN
         CASE tk.k = "null" -> ParseOk(JNull, i + 1)
           [] tk.k = "str"  -> ParseOk(JStr(tk.s), i + 1)
           [] tk.k = "text" -> ParseOk(JText(tk.toks), i + 1)
           [] tk.k = "int"  -> ParseOk(JInt(tk.n), i + 1)
           [] IsP(tk, "[")  ->
                IF i + 1 <= Len(toks) /\ IsP(toks[i + 1], "]")
                THEN ParseOk(JList(<<>>), i + 2)
                ELSE ParseItems(toks, i + 1, <<>>)
           [] IsP(tk, "{")  ->
                IF i + 1 <= Len(toks) /\ IsP(toks[i + 1], "}")
                THEN ParseOk(JObj(<<>>, <<>>), i + 2)
                ELSE ParseMembers(toks, i + 1, JObj(<<>>, <<>>))
           [] OTHER -> ParseFail

\* json.loads: [ok |-> TRUE, val |-> v], or [ok |-> FALSE] for JSONDecodeError
\* (also raised when text follows the document: "Extra data")
json_loads(toks) ==
    LET r == ParseValue(toks, 1) IN
    IF r.ok /\ r.pos = Len(toks) + 1 THEN [ok |-> TRUE, val |-> r.val] ELSE [ok |-> FALSE]

(***************************************************************************)
(* pydantic models (app/models/models.py, routes/stateless_runs.py)        *)
(***************************************************************************)
\* one entry of a pydantic ValidationError: the field and the error type
VErr(loc, type) == [loc |-> loc, type |-> type]

RECURSIVE ItemErrors(_, _, _, _)
\* "<field>.<i>: Input should be a valid <want>" for every item i.. that is
\* not of the type wanted ("dict" or "str")
ItemErrors(loc, items, i, want) ==
    IF i > Len(items) THEN <<>>
    ELSE (IF (want = "dict" /\ IsDict(items[i])) \/ (want = "str" /\ IsStr(items[i]))
          THEN <<>> ELSE <<VErr(loc, want \o "_type")>>)
         \o ItemErrors(loc, items, i + 1, want)

\* a required field annotated List[Dict[str, Any]]
ListOfDictErrors(data, loc) ==
    IF ~HasKey(data, loc) THEN <<VErr(loc, "missing")>>
    ELSE IF ~IsList(Get(data, loc)) THEN <<VErr(loc, "list_type")>>
    ELSE ItemErrors(loc, Get(data, loc).items, 1, "dict")

\* a faulty variant: static_analyzer_output: Union[str, List[str], None]
OptionalStrOrListErrors(data, loc) ==
    IF ~HasKey(data, loc) THEN <<VErr(loc, "missing")>>
    ELSE IF Get(data, loc).t = "null" \/ IsStr(Get(data, loc)) \/ IsList(Get(data, loc))
         THEN <<>>
    ELSE <<VErr(loc, "string_type")>>

\* a required field annotated Optional[str]: no default, so the key must be
\* there; None and str are accepted, nothing is coerced to str
OptionalStrErrors(data, loc) ==
    IF ~HasKey(data, loc) THEN <<VErr(loc, "missing")>>
    ELSE IF Get(data, loc).t = "null" \/ IsStr(Get(data, loc)) THEN <<>>
    ELSE <<VErr(loc, "string_type")>>

ReviewRequestErrors(data) ==
    IF ~IsDict(data) THEN <<VErr("", "model_type")>>
    ELSE ListOfDictErrors(data, "context_files")
         \o ListOfDictErrors(data, "changes")
         \o OptionalStrErrors(data, "static_analyzer_output")

\* a faulty variant: context_files loses its last entry on validation
ReviewRequest_truncating(data) ==
    [changes |-> Get(data, "changes"),
     static_analyzer_output |-> Get(data, "static_analyzer_output"),
     t |-> "ReviewRequest",
     context_files |-> JList(IF Get(data, "context_files").items = <<>> THEN <<>>
                             ELSE SubSeq(Get(data, "context_files").items, 1,
                                         Len(Get(data, "context_files").items) - 1))]

\* the ReviewRequest built from data that passed validation (extra keys ignored)
ReviewRequest(data) ==
    [changes |-> Get(data, "changes"),
     static_analyzer_output |-> Get(data, "static_analyzer_output"),
     t |-> "ReviewRequest",
     context_files |-> Get(data, "context_files")]

\* ReviewRequest.model_validate: the model, or the ValidationError's entries
ReviewRequest_model_validate(data) ==
    LET errs == ReviewRequestErrors(data) IN
    IF errs = <<>> THEN [ok |-> TRUE, model |-> ReviewRequest(data)]
    ELSE [ok |-> FALSE, errors |-> errs]

\* codeReviewInput(files=..., changes=..., static_analyzer_output=[...]):
\* files Optional[list[dict]], changes list[dict], static_analyzer_output list[str]
codeReviewInputErrors(files, changes, sao) ==
    (IF files.t = "null" THEN <<>>
     ELSE IF ~IsList(files) THEN <<VErr("files", "list_type")>>
     ELSE ItemErrors("files", files.items, 1, "dict"))
    \o (IF ~IsList(changes) THEN <<VErr("changes", "list_type")>>
        ELSE ItemErrors("changes", changes.items, 1, "dict"))
    \o (IF ~IsList(sao) THEN <<VErr("static_analyzer_output", "list_type")>>
        ELSE ItemErrors("static_analyzer_output", sao.items, 1, "str"))

codeReviewInput(files, changes, sao) ==
    LET errs == codeReviewInputErrors(files, changes, sao) IN
    IF errs = <<>>
    THEN [ok |-> TRUE,
          model |-> [files |-> files, changes |-> changes, static_analyzer_output |-> sao]]
    ELSE [ok |-> FALSE, errors |-> errs]

\* the Field descriptions of codeReviewInput (their text is not modelled)
FieldDescription(name) == JStr("description of " \o name)

\* a faulty variant: the changes field is left out of the dump
get_model_dump_dropping_changes(m) ==
    JObj(<<"files", "static_analyzer_output">>,
         <<JObj(<<"filesvalue", "files_description">>,
                <<m.files, FieldDescription("files")>>),
           JObj(<<"static_analyzer_outputvalue", "static_analyzer_output_description">>,
                <<m.static_analyzer_output, FieldDescription("static_analyzer_output")>>)>>)

\* get_model_dump_with_metadata: {field: {"<field>value": v, "<field>_description": d}}
\* over model_dump(), in field order
get_model_dump_with_metadata(m) ==
    JObj(<<"files", "changes", "static_analyzer_output">>,
         <<JObj(<<"filesvalue", "files_description">>,
                <<m.files, FieldDescription("files")>>),
           JObj(<<"changesvalue", "changes_description">>,
                <<m.changes, FieldDescription("changes")>>),
           JObj(<<"static_analyzer_outputvalue", "static_analyzer_output_description">>,
                <<m.static_analyzer_output, FieldDescription("static_analyzer_output")>>)>>)

\* ReviewComment.model_dump(): the four fields in declaration order
ReviewComment_model_dump(c) ==
    JObj(<<"filename", "line_number", "comment", "status">>,
         <<JStr(c.filename), JInt(c.line_number), JStr(c.comment), JStr(c.status)>>)

(***************************************************************************)
(* Request bodies as FastAPI validates them before the handler runs        *)
(***************************************************************************)
\* attribute of a validated model: the field's value, or its default None
Attr(body, name) == IF HasKey(body, name) THEN Get(body, name) ELSE JNull

\* an optional field: absent, None or of the type wanted
OptionalErrors(body, loc, want) ==
    IF ~HasKey(body, loc) \/ Get(body, loc).t = "null" THEN <<>>
    ELSE IF (want = "str" /\ IsStr(Get(body, loc))) \/ (want = "dict" /\ IsDict(Get(body, loc)))
         THEN <<>>
    ELSE <<VErr(loc, want \o "_type")>>

\* a faulty variant: the field is declared Optional[str] = None
RequiredStrErrors_optional(body, loc) == OptionalErrors(body, loc, "str")

\* a required str field
RequiredStrErrors(body, loc) ==
    IF ~HasKey(body, loc) THEN <<VErr(loc, "missing")>>
    ELSE IF IsStr(Get(body, loc)) THEN <<>>
    ELSE <<VErr(loc, "string_type")>>

\* Message: role and content, both required str
MessageOk(m) ==
    /\ IsDict(m)
    /\ HasKey(m, "role") /\ IsStr(Get(m, "role"))
    /\ HasKey(m, "content") /\ IsStr(Get(m, "content"))

\* input: Dict[str, List[Message]], required
InputErrors(body) ==
    IF ~HasKey(body, "input") THEN <<VErr("input", "missing")>>
    ELSE LET inp == Get(body, "input") IN
         IF ~IsDict(inp) THEN <<VErr("input", "dict_type")>>
         ELSE IF \A i \in 1..Len(inp.vals) :
                    /\ IsList(inp.vals[i])
                    /\ \A j \in 1..Len(inp.vals[i].items) : MessageOk(inp.vals[i].items[j])
              THEN <<>>
         ELSE <<VErr("input", "list_type")>>

\* RunCreateStateless (the body of POST /runs): input, model and route are
\* required; agent_id and metadata are optional
RunCreateStatelessErrors(body) ==
    IF ~IsDict(body) THEN <<VErr("", "model_type")>>
    ELSE OptionalErrors(body, "agent_id", "str")
         \o InputErrors(body)
         \o RequiredStrErrors(body, "model")
         \o OptionalErrors(body, "metadata", "dict")
         \o RequiredStrErrors(body, "route")

\* SrvRunCreateStateless (the body of POST /runs/wait), the workflow server's
\* generated model: agent_id, input (a dict of anything) and metadata, all
\* optional; keys it does not declare are ignored
SrvRunCreateStatelessErrors(body) ==
    IF ~IsDict(body) THEN <<VErr("", "model_type")>>
    ELSE OptionalErrors(body, "agent_id", "str")
         \o OptionalErrors(body, "input", "dict")
         \o OptionalErrors(body, "metadata", "dict")

BodyErrors(r, body) ==
    IF r = "runs" THEN RunCreateStatelessErrors(body) ELSE SrvRunCreateStatelessErrors(body)

(***************************************************************************)
(* The handlers' try block, up to the call of the chain                    *)
(***************************************************************************)
INTERNAL_ERROR_MESSAGE == "An unexpected error occurred. Please try again later."
INVALID_INPUT_MESSAGE ==
    "Invalid input format: 'messages' field is missing or input is not a dictionary."

\* what a piece of the try block ends in: an HTTPException, another exception,
\* or a value
Http(status, detail) == [kind |-> "http", status |-> status, detail |-> detail]
Exc(cls) == [kind |-> "exc", cls |-> cls]
Val(v) == [val |-> v, kind |-> "ok"]

\* detail of an HTTPException: a string (with the entries of the ValidationError
\* an f-string renders into it), or an exception object
DetailStr(text) == [errors |-> <<>>, kind |-> "str", text |-> text]
DetailValidation(errs) == [errors |-> errs, kind |-> "str", text |-> "Validation failed: "]
DetailExc(cls) == [kind |-> "exc", cls |-> cls]

\* get_code_reviewer_chain: app.state.code_reviewer_chain, which must not be None
get_code_reviewer_chain(chain) ==
    CASE chain = "unset" -> Exc("AttributeError")
      [] chain = "None"  -> Http(500, DetailStr("CodeReviewer not initialized"))
      [] OTHER           -> Val(chain)

\* a faulty variant: the check of body.input always passes when input is a dict
extract_messages_unchecked(body) ==
    IF IsDict(Attr(body, "input"))
    THEN Val(Attr(Attr(body, "input"), "messages"))
    ELSE Http(422, DetailStr(INVALID_INPUT_MESSAGE))

\* body.input["messages"] when body.input is a dict with that key, else 422
extract_messages(body) ==
    IF IsDict(Attr(body, "input")) /\ HasKey(Attr(body, "input"), "messages")
    THEN Val(Get(Attr(body, "input"), "messages"))
    ELSE Http(422, DetailStr(INVALID_INPUT_MESSAGE))

\* a faulty variant: an empty list of messages is rejected as invalid input
first_message_or_422(messages) ==
    CASE IsList(messages) /\ messages.items # <<>> -> Val(messages.items[1])
      [] IsList(messages) -> Http(422, DetailStr(INVALID_INPUT_MESSAGE))
      [] IsDict(messages) -> Exc("KeyError")
      [] OTHER            -> Exc("TypeError")

\* messages[0]
first_message(messages) ==
    CASE IsList(messages) /\ messages.items # <<>> -> Val(messages.items[1])
      [] IsList(messages) -> Exc("IndexError")
      [] IsDict(messages) -> Exc("KeyError")
      [] OTHER            -> Exc("TypeError")

\* first_message.content (/runs: a Message) or first_message["content"]
\* (/runs/wait: whatever the body carried)
message_content(r, m) ==
    IF r = "runs" THEN Val(Get(m, "content"))
    ELSE IF ~IsDict(m) THEN Exc("TypeError")
    ELSE IF ~HasKey(m, "content") THEN Exc("KeyError")
    ELSE Val(Get(m, "content"))

\* json.loads(content)
load_review_request_data(content) ==
    CASE content.t = "text" ->
            IF json_loads(content.toks).ok THEN Val(json_loads(content.toks).val)
            ELSE Exc("JSONDecodeError")
      [] content.t = "str" -> Exc("JSONDecodeError")
      [] OTHER -> Exc("TypeError")

\* the handler's check of the extracted fields: none, every validated request
\* goes on to the prompt
check_required_fields(rr) == Val(rr)

\* codeReviewInput(files=context_files, changes=changes,
\*                 static_analyzer_output=[static_analyzer_output])
build_code_review(rr) ==
    codeReviewInput(rr.context_files, rr.changes, JList(<<rr.static_analyzer_output>>))

\* from the validated ReviewRequest to the payload handed to the chain
assemble(rr) ==
    LET chk == check_required_fields(rr) IN
    IF chk.kind # "ok" THEN chk
    ELSE LET cr == build_code_review(rr) IN
         IF ~cr.ok THEN Exc("ValidationError")
         ELSE Val([review_request |-> rr,
                   payload |-> get_model_dump_with_metadata(cr.model)])

\* a faulty variant: a ValidationError of ReviewRequest is not caught where it is raised
validate_review_request_uncaught(data) ==
    LET v == ReviewRequest_model_validate(data) IN
    IF v.ok THEN Val(v.model) ELSE Exc("ValidationError")

\* try: ReviewRequest.model_validate(data)
\* except ValidationError as e: raise HTTPException(422, f"Validation failed: {e}")
validate_review_request(data) ==
    LET v == ReviewRequest_model_validate(data) IN
    IF v.ok THEN Val(v.model) ELSE Http(422, DetailValidation(v.errors))

\* a faulty variant: the envelope's agent_id is passed on to the chain
chain_invoke_argument_with_agent(body, payload) ==
    SetKey(payload, "agent_id", Attr(body, "agent_id"))

\* the argument of code_reviewer_chain.invoke: the dump of code_review, and
\* nothing of the envelope
chain_invoke_argument(body, payload) == payload

\* the try block of both handlers (they differ in how the first message's
\* content is read): ends in an exception or in the payload for the chain
try_block(r, body, chain) ==
    LET c == get_code_reviewer_chain(chain) IN
    IF c.kind # "ok" THEN c ELSE
    LET ms == extract_messages(body) IN
    IF ms.kind # "ok" THEN ms ELSE
    LET fm == first_message(ms.val) IN
    IF fm.kind # "ok" THEN fm ELSE
    LET ct == message_content(r, fm.val) IN
    IF ct.kind # "ok" THEN ct ELSE
    LET data == load_review_request_data(ct.val) IN
    IF data.kind # "ok" THEN data ELSE
    LET rr == validate_review_request(data.val) IN
    IF rr.kind # "ok" THEN rr ELSE
    LET a == assemble(rr.val) IN
    IF a.kind # "ok" THEN a ELSE
    [a EXCEPT !.val.payload = chain_invoke_argument(body, @)]

\* a faulty variant: the generic handler answers as a validation failure would be
except_clauses_422(res) ==
    IF res.kind = "exc" THEN Http(422, DetailExc(res.cls)) ELSE res

\* a faulty variant: the generic handler answers with the status of a bad request
except_clauses_400(res) ==
    IF res.kind = "exc" THEN Http(400, DetailExc(res.cls)) ELSE res

\* a faulty variant: an HTTPException is caught by the generic clause too and
\* wrapped into a new one
except_clauses_rewrapping(res) ==
    IF res.kind \in {"exc", "http"} THEN Http(500, DetailExc("HTTPException")) ELSE res

\* except HTTPException: raise it again;
\* except Exception as exc: raise HTTPException(500, detail=exc)
except_clauses(res) ==
    IF res.kind = "exc" THEN Http(500, DetailExc(res.cls)) ELSE res

(***************************************************************************)
(* After the chain returned: filter, encode                                *)
(***************************************************************************)
RECURSIVE filter_positive(_)
\* a faulty variant: only comments with a positive line number are kept
filter_positive(issues) ==
    IF issues = <<>> THEN <<>>
    ELSE (IF Head(issues).line_number > 0 THEN <<Head(issues)>> ELSE <<>>)
         \o filter_positive(Tail(issues))

\* a faulty variant: no comment is filtered out
filter_keep_all(issues) == issues

\* a faulty variant: the first comment is skipped before the filter runs
filter_nonzero_after_first(issues) ==
    IF issues = <<>> THEN <<>>
    ELSE SelectSeq(Tail(issues), LAMBDA c : c.line_number # 0)

RECURSIVE filter_nonzero(_)
filter_nonzero(issues) ==
    IF issues = <<>> THEN <<>>
    ELSE (IF Head(issues).line_number # 0 THEN <<Head(issues)>> ELSE <<>>)
         \o filter_nonzero(Tail(issues))

\* [comment.model_dump() for comment in response.issues if comment.line_number != 0]
filtered_comments(issues) ==
    LET kept == filter_nonzero(issues) IN
    JList([i \in 1..Len(kept) |-> ReviewComment_model_dump(kept[i])])

\* a faulty variant: without an id the response carries the empty string
metadata_id_or_empty(body) ==
    IF Truthy(Attr(body, "metadata")) /\ HasKey(Attr(body, "metadata"), "id")
    THEN Get(Attr(body, "metadata"), "id")
    ELSE JStr("")

\* body.metadata.get("id", "default-id") if body.metadata else "default-id"
metadata_id(body) ==
    IF Truthy(Attr(body, "metadata")) /\ HasKey(Attr(body, "metadata"), "id")
    THEN Get(Attr(body, "metadata"), "id")
    ELSE JStr("default-id")

\* x or default
OrElse(x, default) == IF Truthy(x) THEN x ELSE default

\* the ReviewResponse both handlers build; /runs/wait fixes the model
ReviewResponse(r, body, comments) ==
    JObj(<<"agent_id", "output", "model", "metadata">>,
         <<OrElse(Attr(body, "agent_id"), JStr("default-agent")),
           JObj(<<"messages">>,
                <<JList(<<JObj(<<"role", "content">>,
                               <<JStr("assistant"), JText(json_dumps(comments))>>)>>)>>),
           IF r = "runs" THEN OrElse(Attr(body, "model"), JStr("gpt-4o")) ELSE JStr("gpt-4o"),
           JObj(<<"id">>, <<metadata_id(body)>>)>>)

\* str(x) for the values a metadata id takes here
PyStr(v) ==
    CASE v.t = "str" -> v
      [] v.t = "int" /\ v.n \in 0..9 ->
            JStr(<<"0", "1", "2", "3", "4", "5", "6", "7", "8", "9">>[v.n + 1])
      [] OTHER -> JStr("?")

\* the validated SrvRunCreateStateless: its declared fields
SrvRunCreateStateless(body) ==
    JObj(<<"agent_id", "input", "metadata">>,
         <<Attr(body, "agent_id"), Attr(body, "input"), Attr(body, "metadata")>>)

\* a faulty variant: the run is reported as failed
SrvRunStatus_ERROR == JStr("error")

\* status=SrvRunStatus.SUCCESS
SrvRunStatus_SUCCESS == JStr("success")

\* SrvRunWaitResponseStateless(run=SrvRunStateless(...), output=SrvRunOutput(...))
RunWaitResponse(body, comments, now) ==
    JObj(<<"run", "output">>,
         <<JObj(<<"run_id", "agent_id", "created_at", "updated_at", "status", "creation">>,
                <<IF Truthy(Attr(body, "metadata"))
                  THEN PyStr(IF HasKey(Attr(body, "metadata"), "id")
                             THEN Get(Attr(body, "metadata"), "id") ELSE JStr(""))
                  ELSE JStr(""),
                  OrElse(Attr(body, "agent_id"), JStr("")),
                  JInt(now), JInt(now), SrvRunStatus_SUCCESS,
                  SrvRunCreateStateless(body)>>),
           JObj(<<"type", "messages">>,
                <<JStr("result"),
                  JList(<<JObj(<<"role", "content">>,
                               <<JStr("ai"), JText(json_dumps(comments))>>)>>)>>)>>)

(***************************************************************************)
(* Inputs: the request bodies and the chain's results                      *)
(***************************************************************************)
MaxContextFiles == 2
MaxChanges == 2
MaxIssues == 2
MaxClock == 2

SeqsUpTo(S, n) == UNION {[1..k -> S] : k \in 0..n}

\* a field the JSON document does not carry
Absent == [t |-> "absent"]

RECURSIVE MkObj(_, _)
\* the dict of the keys whose value is not Absent
MkObj(ks, vs) ==
    IF ks = <<>> THEN JObj(<<>>, <<>>)
    ELSE LET rest == MkObj(Tail(ks), Tail(vs)) IN
         IF Head(vs).t = "absent" THEN rest
         ELSE JObj(<<Head(ks)>> \o rest.keys, <<Head(vs)>> \o rest.vals)

ContextFile == JObj(<<"path", "content">>, <<JStr("x.tf"), JStr("resource {}")>>)
Change(status) ==
    JObj(<<"filename", "start_line", "changed_code", "status">>,
         <<JStr("x.tf"), JInt(1), JStr("+ acl = public-read"), JStr(status)>>)
AnalyzerText == JStr("Warning: public bucket")

ContextFilesLists == {JList(s) : s \in SeqsUpTo({ContextFile}, MaxContextFiles)}
ChangesLists == {JList(s) : s \in SeqsUpTo({Change("added"), Change("removed")}, MaxChanges)}
AnalyzerOutputs ==
    {Absent, JNull, JStr(""), AnalyzerText, JList(<<AnalyzerText>>), JInt(5)}

\* what a client serialises into the first message: the three fields in any
\* of their shapes, and documents of another shape
EmbeddedJsons ==
    {MkObj(<<"context_files", "changes", "static_analyzer_output">>, <<cf, ch, sao>>) :
        cf \in ContextFilesLists, ch \in ChangesLists, sao \in AnalyzerOutputs}
    \cup {JList(<<>>),
          JObj(<<"changes", "static_analyzer_output">>, <<JList(<<Change("added")>>), AnalyzerText>>),
          JObj(<<"context_files", "changes", "static_analyzer_output">>,
               <<JList(<<JStr("x.tf")>>), JList(<<Change("added")>>), AnalyzerText>>),
          JObj(<<"context_files", "changes", "static_analyzer_output">>,
               <<JList(<<ContextFile>>), JStr("diff"), AnalyzerText>>),
          JObj(<<"context_files", "changes", "static_analyzer_output", "extra">>,
               <<JList(<<ContextFile>>), JList(<<Change("removed")>>), AnalyzerText, JInt(1)>>)}

GoodEmbedded ==
    JObj(<<"context_files", "changes", "static_analyzer_output">>,
         <<JList(<<ContextFile>>), JList(<<Change("added")>>), AnalyzerText>>)

\* a message content with the JSON value it was serialised from (Absent when
\* it is no serialisation of anything)
Contents ==
    {[embedded |-> v, content |-> JText(json_dumps(v))] : v \in EmbeddedJsons}
    \cup {[embedded |-> Absent, content |-> c] :
            c \in {JStr("please review"),
                   JText(<<TJunk("please review")>>),
                   JText(<<P("{"), TStr("context_files"), P(":")>>),
                   JText(json_dumps(GoodEmbedded) \o <<P("}")>>)}}

Message(content) == MkObj(<<"role", "content">>, <<JStr("user"), content>>)

\* the well-formed input around a content, and inputs of other shapes
GoodInput(content) == JObj(<<"messages">>, <<JList(<<Message(content)>>)>>)
OddInputs ==
    {Absent, JNull, JStr("messages"), JList(<<>>), JObj(<<>>, <<>>),
     JObj(<<"other">>, <<JList(<<Message(JText(json_dumps(GoodEmbedded)))>>)>>),
     JObj(<<"messages">>, <<JList(<<>>)>>),
     JObj(<<"messages">>, <<JList(<<Message(Absent)>>)>>),
     JObj(<<"messages">>, <<JList(<<Message(JInt(1))>>)>>),
     JObj(<<"messages">>, <<JList(<<Message(JText(json_dumps(GoodEmbedded))),
                                    Message(JStr("thanks"))>>)>>)}

AgentIds == {Absent, JStr(""), JStr("test-agent")}
Models == {Absent, JStr(""), JStr("gpt-4")}
Routes == {Absent, JStr("/api/v1/runs")}
Metadatas ==
    {Absent, JNull, JObj(<<>>, <<>>), JObj(<<"id">>, <<JStr("req-1")>>),
     JObj(<<"trace">>, <<JStr("t-1")>>), JObj(<<"id", "trace">>, <<JInt(7), JStr("t-1")>>)}

Envelope(agent_id, input, model, metadata, route) ==
    MkObj(<<"agent_id", "input", "model", "metadata", "route">>,
          <<agent_id, input, model, metadata, route>>)

\* request bodies with what their first message was serialised from: every
\* content in the test suite's envelope, every envelope around the good
\* content, and the inputs of other shapes
Bodies ==
    {[embedded |-> c.embedded,
      body |-> Envelope(JStr("test-agent"), GoodInput(c.content), JStr("gpt-4"),
                        JObj(<<"id">>, <<JStr("req-1")>>), JStr("/api/v1/runs"))] :
        c \in Contents}
    \cup {[embedded |-> GoodEmbedded,
           body |-> Envelope(a, GoodInput(JText(json_dumps(GoodEmbedded))), m, md, rt)] :
            a \in AgentIds, m \in Models, md \in Metadatas, rt \in Routes}
    \cup {[embedded |-> Absent,
           body |-> Envelope(JStr("test-agent"), i, JStr("gpt-4"),
                             JObj(<<"id">>, <<JStr("req-1")>>), JStr("/api/v1/runs"))] :
            i \in OddInputs}
    \cup {[embedded |-> Absent, body |-> JObj(<<>>, <<>>)]}

\* the comments a chain may return
ReviewComment(line_number, status, comment) ==
    [filename |-> "x.tf", line_number |-> line_number, comment |-> comment, status |-> status]
Comments ==
    {ReviewComment(1, "added", "public acl"), ReviewComment(0, "added", "irrelevant"),
     ReviewComment(-1, "removed", "dangling"), ReviewComment(0, "removed", "unanchored")}

\* what chain.invoke returns: a ReviewComments, or (as the tests' dummy chain) None
ReviewComments(issues) == [t |-> "ReviewComments", issues |-> issues]
ChainResults == {JNull} \cup {ReviewComments(s) : s \in SeqsUpTo(Comments, MaxIssues)}

(***************************************************************************)
(* Configuration and the construction of the chain at startup              *)
(***************************************************************************)
\* os.getenv(name, default) over an environment (a record of the variables,
\* Absent for a variable that is not set)
getenv(env, name, default) == IF env[name] = Absent THEN default ELSE env[name]

\* float(x) of the temperatures configured here, in tenths
float(x) ==
    CASE x = JStr("0")   -> 0
      [] x = JStr("0.7") -> 7
      [] x = JStr("1")   -> 10
      [] OTHER           -> x.n

\* the default temperature 0.7, in tenths
DEFAULT_TEMPERATURE == 7

\* Settings(): each field is the environment variable of its own name when
\* that is set, else its class default (the os.getenv(...) of the class body)
Settings(env) ==
    [AZURE_OPENAI_API_KEY |-> getenv(env, "AZURE_OPENAI_API_KEY", JStr("")),
     AZURE_OPENAI_ENDPOINT |-> getenv(env, "AZURE_OPENAI_ENDPOINT", JStr("")),
     AZURE_OPENAI_DEPLOYMENT_NAME |-> getenv(env, "AZURE_OPENAI_DEPLOYMENT_NAME", JStr("gpt-4o")),
     AZURE_OPENAI_API_VERSION |->
         getenv(env, "AZURE_OPENAI_API_VERSION", JStr("2024-03-01-preview")),
     AZURE_OPENAI_TEMPERATURE |->
         IF env["AZURE_OPENAI_TEMPERATURE"] # Absent
         THEN float(env["AZURE_OPENAI_TEMPERATURE"])
         ELSE float(getenv(env, "OPENAI_TEMPERATURE", JInt(DEFAULT_TEMPERATURE))),
     OPENAI_MODEL_NAME |-> getenv(env, "OPENAI_MODEL_NAME", JStr("gpt-4o")),
     OPENAI_API_KEY |-> getenv(env, "OPENAI_API_KEY", JStr("")),
     OPENAI_TEMPERATURE |-> float(getenv(env, "OPENAI_TEMPERATURE", JInt(DEFAULT_TEMPERATURE)))]

\* a faulty variant: the temperature is left out of the test
USE_AZURE_credentials_only(st) ==
    /\ Truthy(st.AZURE_OPENAI_API_KEY)
    /\ Truthy(st.AZURE_OPENAI_ENDPOINT)
    /\ Truthy(st.AZURE_OPENAI_DEPLOYMENT_NAME)
    /\ Truthy(st.AZURE_OPENAI_API_VERSION)

\* USE_AZURE = all([key, endpoint, deployment name, api version, temperature])
USE_AZURE(st) ==
    /\ Truthy(st.AZURE_OPENAI_API_KEY)
    /\ Truthy(st.AZURE_OPENAI_ENDPOINT)
    /\ Truthy(st.AZURE_OPENAI_DEPLOYMENT_NAME)
    /\ Truthy(st.AZURE_OPENAI_API_VERSION)
    /\ st.AZURE_OPENAI_TEMPERATURE # 0

AzureChatOpenAI(st) ==
    [model |-> st.AZURE_OPENAI_DEPLOYMENT_NAME,
     backend |-> "azure",
     azure_endpoint |-> st.AZURE_OPENAI_ENDPOINT,
     api_key |-> st.AZURE_OPENAI_API_KEY,
     api_version |-> st.AZURE_OPENAI_API_VERSION,
     temperature |-> st.AZURE_OPENAI_TEMPERATURE]

ChatOpenAI(env) ==
    [model |-> getenv(env, "OPENAI_MODEL_NAME", JStr("gpt-4o")),
     backend |-> "openai",
     azure_endpoint |-> JNull,
     api_key |-> IF Truthy(getenv(env, "OPENAI_API_KEY", JNull))
                 THEN getenv(env, "OPENAI_API_KEY", JStr("gpt-4o")) ELSE JNull,
     api_version |-> JNull,
     temperature |-> float(getenv(env, "OPENAI_TEMPERATURE", JInt(DEFAULT_TEMPERATURE)))]

\* initialize_chain(): the model the chain is built around
initialize_chain(st, env) == IF USE_AZURE(st) THEN AzureChatOpenAI(st) ELSE ChatOpenAI(env)

\* the environments a deployment starts in
Environ(ak, ae, ad, av, at, om, ok, ot) ==
    [AZURE_OPENAI_API_KEY |-> ak, AZURE_OPENAI_ENDPOINT |-> ae,
     AZURE_OPENAI_DEPLOYMENT_NAME |-> ad, AZURE_OPENAI_API_VERSION |-> av,
     AZURE_OPENAI_TEMPERATURE |-> at, OPENAI_MODEL_NAME |-> om, OPENAI_API_KEY |-> ok,
     OPENAI_TEMPERATURE |-> ot]

Environments ==
    {Environ(ak, ae, ad, av, at, om, ok, ot) :
        ak \in {Absent, JStr("azure-key")},
        ae \in {Absent, JStr("https://fake-endpoint")},
        ad \in {Absent, JStr("")},
        av \in {Absent, JStr("")},
        at \in {Absent, JStr("0")},
        om \in {Absent, JStr("gpt-4-turbo")},
        ok \in {Absent, JStr("fake-key")},
        ot \in {Absent, JStr("0")}}

\* the environments of the test suite's OpenAI path: a key, and a model name
\* or none
OpenAIEnvironments ==
    {Environ(Absent, Absent, Absent, Absent, Absent, om, JStr("fake-key"), Absent) :
        om \in {Absent, JStr("gpt-4-turbo")}}

(***************************************************************************)
(* The application: startup, then one request at a time through a handler  *)
(***************************************************************************)
VARIABLES
    code_reviewer_chain,  \* app.state.code_reviewer_chain: "unset", "None", "chain"
    started,              \* the lifespan reached its yield: requests are served
    pc,                   \* "idle", "handler", "invoking", "returned", "done"
    route,                \* "runs" or "runs_wait" ("none" before any request)
    embedded,             \* what the client serialised into the first message
    body,                 \* the request body
    review_request,       \* the validated ReviewRequest
    llm_payload,          \* the argument of code_reviewer_chain.invoke
    llm_calls,            \* calls of code_reviewer_chain.invoke for this request
    response,             \* what code_reviewer_chain.invoke returned
    outcome,              \* the response: status, and body or error detail
    environ,              \* os.environ
    settings,             \* app.core.config.settings
    llm,                  \* the model initialize_chain built the chain around
    lifespan_pc,          \* the statement of lifespan that runs next (1, 2, ...)
    agp,                  \* the AGP server task: "none", "scheduled", "serving"
    in_flight,            \* requests served side by side: for each of them the
                          \* locals of its handler (see Slot)
    args,                 \* wrap_prompt: the strings it is called with
    wrapped,              \* wrap_prompt: what it returned
    rewrapped,            \* wrap_prompt: what it returned for that result
    state_messages,       \* REST client: the contents of state["messages"]
    client_pc,            \* REST client: where node_remote_request_stateless is
    session,              \* REST client: "none", "open", "closed"
    posts,                \* REST client: calls of session.post
    http_result,          \* REST client: what the server did with the POST
    node_result           \* REST client: what the node returned or raised

\* what belongs to the application, not to a request
app_state == <<code_reviewer_chain, started, environ, settings, llm, lifespan_pc, agp>>

\* the prompt helper and the REST client: neither is touched by the service
prompt_state == <<args, wrapped, rewrapped>>
client_state == <<state_messages, client_pc, session, posts, http_result, node_result>>

vars == <<app_state, pc, route, embedded, body, review_request,
          llm_payload, llm_calls, response, outcome, in_flight,
          prompt_state, client_state>>

Endpoints == {"runs", "runs_wait"}
NoOutcome == [status |-> 0]
\* a local not assigned yet
Unset == [t |-> "unset"]
Success(b) == [body |-> b, status |-> 200]
Failure(status, detail) == [status |-> status, detail |-> detail]

\* how many requests are served side by side
MaxInFlight == 2

\* the locals of one handler among several: its place, the endpoint, the body,
\* the validated ReviewRequest, the argument of code_reviewer_chain.invoke, the
\* number of calls of it, what it returned, and the response
Slot(p, r, b, rr, payload, calls, resp, out) == <<p, r, b, rr, payload, calls, resp, out>>
IdleSlot == Slot("idle", "none", JNull, Unset, Unset, 0, Unset, NoOutcome)

\* the application object before its lifespan has run, no request in flight
Created ==
    /\ in_flight = [i \in 1..MaxInFlight |-> IdleSlot]
    /\ settings = Settings(environ)
    /\ code_reviewer_chain = "unset"
    /\ started = FALSE
    /\ llm = Unset
    /\ lifespan_pc = 1
    /\ agp = "none"
    /\ pc = "idle"
    /\ route = "none"
    /\ embedded = Absent
    /\ body = JNull
    /\ review_request = Unset
    /\ llm_payload = Unset
    /\ llm_calls = 0
    /\ response = Unset
    /\ outcome = NoOutcome

\* wrap_prompt has not been called (a string is a sequence of characters; this one is none)
NotReturned == <<"not returned">>
PromptIdle == args = <<>> /\ wrapped = NotReturned /\ rewrapped = NotReturned

\* the REST client node has not been invoked
ClientIdle ==
    /\ state_messages = <<>> /\ client_pc = "idle" /\ session = "none"
    /\ posts = 0 /\ http_result = <<"none">> /\ node_result = <<"none">>

Init == environ \in OpenAIEnvironments /\ Created /\ PromptIdle /\ ClientIdle

request_state == <<pc, route, embedded, body, review_request, llm_payload, llm_calls,
                   response, outcome>>

\* a faulty variant: the chain is stored after the application went on to serve
lifespan_statements_chain_last == <<"create_agp_task", "yield", "store_chain">>

\* the statements of lifespan up to its yield, in their order
lifespan_statements == <<"store_chain", "create_agp_task", "yield">>

\* lifespan runs its next statement:
\*   app.state.code_reviewer_chain = initialize_chain()
\*   asyncio.create_task(start_agp_server(app))
\*   yield
lifespan ==
    /\ lifespan_pc <= Len(lifespan_statements)
    /\ lifespan_pc' = lifespan_pc + 1
    /\ code_reviewer_chain' =
          IF lifespan_statements[lifespan_pc] = "store_chain" THEN "chain"
          ELSE code_reviewer_chain
    /\ llm' = IF lifespan_statements[lifespan_pc] = "store_chain"
              THEN initialize_chain(settings, environ) ELSE llm
    /\ agp' = IF lifespan_statements[lifespan_pc] = "create_agp_task" THEN "scheduled" ELSE agp
    /\ started' = IF lifespan_statements[lifespan_pc] = "yield" THEN TRUE ELSE started
    /\ UNCHANGED <<prompt_state, client_state, environ, settings, request_state, in_flight>>

\* start_agp_server, run by the event loop once lifespan has let go of it:
\* it hands the app to the gateway, connects and serves (a gateway that never
\* connects leaves the task where it is)
start_agp_server ==
    /\ started
    /\ agp = "scheduled"
    /\ agp' = "serving"
    /\ UNCHANGED <<prompt_state, client_state, code_reviewer_chain, started, environ, settings, llm, lifespan_pc,
                   request_state, in_flight>>

\* FastAPI's answer to a body that fails the handler's body model
RequestValidationError(errs) == Failure(422, [errors |-> errs, kind |-> "request_validation"])

\* FastAPI takes a request for an endpoint and validates its body against the
\* handler's body model; a body that fails is answered 422 without the handler
receive_request(r, b) ==
    /\ started \/ agp = "serving"
    /\ pc = "idle"
    /\ route' = r
    /\ embedded' = b.embedded
    /\ body' = b.body
    /\ IF BodyErrors(r, b.body) = <<>>
       THEN pc' = "handler" /\ outcome' = NoOutcome
       ELSE /\ pc' = "done"
            /\ outcome' = RequestValidationError(BodyErrors(r, b.body))
    /\ UNCHANGED <<prompt_state, client_state, app_state, in_flight, review_request, llm_payload, llm_calls,
                   response>>

\* what the handler's try statement comes to before it calls the chain: the
\* HTTPException it raises, or the payload for the chain
HandlerResult == except_clauses(try_block(route, body, code_reviewer_chain))

\* the handler's try block up to the call of the chain, with its except clauses
handler_try ==
    /\ pc = "handler"
    /\ pc' = IF HandlerResult.kind = "http" THEN "done" ELSE "invoking"
    /\ outcome' = IF HandlerResult.kind = "http"
                  THEN Failure(HandlerResult.status, HandlerResult.detail)
                  ELSE outcome
    /\ review_request' = IF HandlerResult.kind = "http" THEN review_request
                         ELSE HandlerResult.val.review_request
    /\ llm_payload' = IF HandlerResult.kind = "http" THEN llm_payload
                      ELSE HandlerResult.val.payload
    /\ llm_calls' = IF HandlerResult.kind = "http" THEN llm_calls ELSE llm_calls + 1
    /\ UNCHANGED <<prompt_state, client_state, app_state, in_flight, route, embedded, body, response>>

\* code_reviewer_chain.invoke(...) returns
chain_invoke_returns(v) ==
    /\ pc = "invoking"
    /\ response' = v
    /\ pc' = "returned"
    /\ UNCHANGED <<prompt_state, client_state, app_state, in_flight, route, embedded, body, review_request,
                   llm_payload, llm_calls, outcome>>

\* a faulty variant: the except clause goes through the try block once more
retry_from_except == "handler"

\* where the handler stands after `raise HTTPException(...) from exc`: it ended
raise_from_except == "done"

\* code_reviewer_chain.invoke(...) raises: the except clauses answer
chain_invoke_raises ==
    /\ pc = "invoking"
    /\ outcome' = Failure(except_clauses(Exc("LLMError")).status,
                          except_clauses(Exc("LLMError")).detail)
    /\ pc' = raise_from_except
    /\ UNCHANGED <<prompt_state, client_state, app_state, in_flight, route, embedded, body, review_request,
                   llm_payload, llm_calls, response>>

\* an exception no handler catches: Starlette answers 500
UnhandledException(cls) == Failure(500, [kind |-> "server_error", cls |-> cls])

\* what a handler answers once the chain returned resp: response.issues of a
\* result that has none raises outside every try; else the comments are
\* filtered and encoded, for /runs/wait into a run stamped with the time now
handler_response(r, b, resp, now) ==
    IF resp.t # "ReviewComments" THEN UnhandledException("AttributeError")
    ELSE IF r = "runs" THEN Success(ReviewResponse(r, b, filtered_comments(resp.issues)))
    ELSE Success(RunWaitResponse(b, filtered_comments(resp.issues), now))

\* run_stateless_runs_post after the try statement: filter, encode, return
run_stateless_runs_post_respond ==
    /\ pc = "returned"
    /\ route = "runs"
    /\ outcome' = handler_response(route, body, response, 0)
    /\ pc' = "done"
    /\ UNCHANGED <<prompt_state, client_state, app_state, in_flight, route, embedded, body, review_request,
                   llm_payload, llm_calls, response>>

\* create_and_wait_for_stateless_run_output after the try statement: filter,
\* build the run output and the run record stamped with the current time
create_and_wait_for_stateless_run_output_respond(now) ==
    /\ pc = "returned"
    /\ route = "runs_wait"
    /\ outcome' = handler_response(route, body, response, now)
    /\ pc' = "done"
    /\ UNCHANGED <<prompt_state, client_state, app_state, in_flight, route, embedded, body, review_request,
                   llm_payload, llm_calls, response>>

\* the response is sent and nothing of the request is kept: the next request
\* starts from fresh locals
request_ends ==
    /\ pc = "done"
    /\ pc' = "idle"
    /\ route' = "none"
    /\ embedded' = Absent
    /\ body' = JNull
    /\ review_request' = Unset
    /\ llm_payload' = Unset
    /\ llm_calls' = 0
    /\ response' = Unset
    /\ outcome' = NoOutcome
    /\ UNCHANGED <<prompt_state, client_state, app_state, in_flight>>

Next ==
    \/ lifespan
    \/ start_agp_server
    \/ \E r \in Endpoints, b \in Bodies : receive_request(r, b)
    \/ handler_try
    \/ \E v \in ChainResults : chain_invoke_returns(v)
    \/ chain_invoke_raises
    \/ run_stateless_runs_post_respond
    \/ \E now \in 1..MaxClock : create_and_wait_for_stateless_run_output_respond(now)
    \/ request_ends

Spec == Init /\ [][Next]_vars

\* the application as the unit tests serve it: create_fastapi_app(), then
\* app.state.code_reviewer_chain is assigned by the test (a chain, or None)
\* and a TestClient sends requests without running the lifespan
PatchedInit ==
    /\ environ = Environ(Absent, Absent, Absent, Absent, Absent, Absent, JStr("fake-key"), Absent)
    /\ in_flight = [i \in 1..MaxInFlight |-> IdleSlot]
    /\ settings = Settings(environ)
    /\ code_reviewer_chain \in {"None", "chain"}
    /\ started = TRUE
    /\ llm = Unset
    /\ lifespan_pc = Len(lifespan_statements) + 1
    /\ agp = "none"
    /\ pc = "idle"
    /\ route = "none"
    /\ embedded = Absent
    /\ body = JNull
    /\ review_request = Unset
    /\ llm_payload = Unset
    /\ llm_calls = 0
    /\ response = Unset
    /\ outcome = NoOutcome
    /\ PromptIdle /\ ClientIdle

PatchedNext ==
    \/ \E r \in Endpoints, b \in Bodies : receive_request(r, b)
    \/ handler_try
    \/ \E v \in ChainResults : chain_invoke_returns(v)
    \/ chain_invoke_raises
    \/ run_stateless_runs_post_respond
    \/ \E now \in 1..MaxClock : create_and_wait_for_stateless_run_output_respond(now)
    \/ request_ends

PatchedSpec == PatchedInit /\ [][PatchedNext]_vars

\* startup alone, from every environment
StartupInit == environ \in Environments /\ Created /\ PromptIdle /\ ClientIdle
StartupNext == lifespan \/ start_agp_server
StartupSpec == StartupInit /\ [][StartupNext]_vars

(***************************************************************************)
(* Requests served side by side. POST /runs is a plain function, which     *)
(* FastAPI runs on a thread of its pool; POST /runs/wait is a coroutine of *)
(* the event loop. Handlers share app.state and nothing else.              *)
(***************************************************************************)
\* the envelopes sent side by side: the test suite's, the same content in an
\* envelope without agent_id and metadata and with an empty model, one
\* without model and route, another content, and a content that is no JSON
ConcurrentBodies ==
    {Envelope(JStr("test-agent"), GoodInput(JText(json_dumps(GoodEmbedded))), JStr("gpt-4"),
              JObj(<<"id">>, <<JStr("req-1")>>), JStr("/api/v1/runs")),
     Envelope(Absent, GoodInput(JText(json_dumps(GoodEmbedded))), JStr(""),
              Absent, JStr("/api/v1/runs")),
     Envelope(JStr("test-agent"), GoodInput(JText(json_dumps(GoodEmbedded))), Absent,
              JObj(<<"id">>, <<JStr("req-1")>>), Absent),
     Envelope(JStr("test-agent"),
              GoodInput(JText(json_dumps(
                  JObj(<<"context_files", "changes", "static_analyzer_output">>,
                       <<JList(<<>>), JList(<<Change("removed")>>), AnalyzerText>>)))),
              JStr("gpt-4"), JObj(<<"id">>, <<JStr("req-1")>>), JStr("/api/v1/runs")),
     Envelope(JStr("test-agent"), GoodInput(JStr("please review")), JStr("gpt-4"),
              JObj(<<"id">>, <<JStr("req-1")>>), JStr("/api/v1/runs"))}

\* what the chain returns to them, when it returns
ConcurrentResults ==
    {ReviewComments(<<ReviewComment(0, "added", "irrelevant"),
                      ReviewComment(1, "added", "public acl")>>)}

\* a faulty variant: the handler clears the reference once it has read it
chain_cleared_after_read(chain) == "None"

\* app.state.code_reviewer_chain once get_code_reviewer_chain has run: it reads
\* the attribute and assigns nothing
chain_after_read(chain) == chain

\* FastAPI takes a request while others are in their handlers
serve_receive(i, r, b) ==
    /\ started \/ agp = "serving"
    /\ in_flight[i] = IdleSlot
    /\ in_flight' = [in_flight EXCEPT ![i] =
          IF BodyErrors(r, b) = <<>>
          THEN Slot("handler", r, b, Unset, Unset, 0, Unset, NoOutcome)
          ELSE Slot("done", r, b, Unset, Unset, 0, Unset,
                    RequestValidationError(BodyErrors(r, b)))]
    /\ UNCHANGED <<prompt_state, client_state, app_state, request_state>>

\* the try block of handler i up to the call of the chain; it reads
\* app.state.code_reviewer_chain as it is when the handler gets there
serve_handler_try(i) ==
    /\ in_flight[i][1] = "handler"
    /\ LET res == except_clauses(try_block(in_flight[i][2], in_flight[i][3],
                                           code_reviewer_chain)) IN
       in_flight' = [in_flight EXCEPT ![i] =
          IF res.kind = "http"
          THEN Slot("done", in_flight[i][2], in_flight[i][3], Unset, Unset, 0, Unset,
                    Failure(res.status, res.detail))
          ELSE Slot("invoking", in_flight[i][2], in_flight[i][3], res.val.review_request,
                    res.val.payload, 1, Unset, NoOutcome)]
    /\ code_reviewer_chain' = chain_after_read(code_reviewer_chain)
    /\ UNCHANGED <<prompt_state, client_state, started, environ, settings, llm, lifespan_pc, agp, request_state>>

\* the call of the chain by handler i returns
serve_chain_returns(i, v) ==
    /\ in_flight[i][1] = "invoking"
    /\ in_flight' = [in_flight EXCEPT ![i][1] = "returned", ![i][7] = v]
    /\ UNCHANGED <<prompt_state, client_state, app_state, request_state>>

\* the call of the chain by handler i raises
serve_chain_raises(i) ==
    /\ in_flight[i][1] = "invoking"
    /\ in_flight' = [in_flight EXCEPT
          ![i][1] = raise_from_except,
          ![i][8] = Failure(except_clauses(Exc("LLMError")).status,
                            except_clauses(Exc("LLMError")).detail)]
    /\ UNCHANGED <<prompt_state, client_state, app_state, request_state>>

\* handler i answers
serve_respond(i, now) ==
    /\ in_flight[i][1] = "returned"
    /\ in_flight' = [in_flight EXCEPT
          ![i][1] = "done",
          ![i][8] = handler_response(in_flight[i][2], in_flight[i][3], in_flight[i][7], now)]
    /\ UNCHANGED <<prompt_state, client_state, app_state, request_state>>

\* the response of request i is sent; its handler's locals are gone
serve_ends(i) ==
    /\ in_flight[i][1] = "done"
    /\ in_flight' = [in_flight EXCEPT ![i] = IdleSlot]
    /\ UNCHANGED <<prompt_state, client_state, app_state, request_state>>

ConcurrentNext ==
    \/ lifespan
    \/ \E i \in 1..MaxInFlight, r \in Endpoints, b \in ConcurrentBodies : serve_receive(i, r, b)
    \/ \E i \in 1..MaxInFlight : serve_handler_try(i)
    \/ \E i \in 1..MaxInFlight, v \in ConcurrentResults : serve_chain_returns(i, v)
    \/ \E i \in 1..MaxInFlight : serve_chain_raises(i)
    \/ \E i \in 1..MaxInFlight, now \in 1..MaxClock : serve_respond(i, now)
    \/ \E i \in 1..MaxInFlight : serve_ends(i)

\* the environment of the test suite's OpenAI path
ConcurrentInit ==
    /\ environ = Environ(Absent, Absent, Absent, Absent, Absent, Absent, JStr("fake-key"), Absent)
    /\ Created /\ PromptIdle /\ ClientIdle

ConcurrentSpec == ConcurrentInit /\ [][ConcurrentNext]_vars

(***************************************************************************)
(* wrap_prompt (app/utils/wrap_prompt.py). A string is the sequence of its *)
(* characters.                                                             *)
(***************************************************************************)
MaxChars == 5
MaxArgs == 2

\* the characters of the strings: a space, a tab, a newline and a letter
Chars == {" ", "\t", "\n", "x"}

\* what str.lstrip() and str.rstrip() remove
Whitespace == {" ", "\t", "\n"}

RECURSIVE split(_, _)
\* s.split(sep), sep one character
split(s, sep) ==
    IF \A i \in 1..Len(s) : s[i] # sep THEN <<s>>
    ELSE LET k == CHOOSE i \in 1..Len(s) : s[i] = sep /\ \A j \in 1..(i - 1) : s[j] # sep IN
         <<SubSeq(s, 1, k - 1)>> \o split(SubSeq(s, k + 1, Len(s)), sep)

RECURSIVE lstrip(_)
lstrip(s) == IF s # <<>> /\ Head(s) \in Whitespace THEN lstrip(Tail(s)) ELSE s

RECURSIVE rstrip(_)
rstrip(s) ==
    IF s # <<>> /\ s[Len(s)] \in Whitespace THEN rstrip(SubSeq(s, 1, Len(s) - 1)) ELSE s

RECURSIVE join(_, _)
\* sep.join(lines)
join(sep, lines) ==
    IF lines = <<>> THEN <<>>
    ELSE IF Len(lines) = 1 THEN lines[1]
    ELSE lines[1] \o <<sep>> \o join(sep, Tail(lines))

\* " " * n
Spaces(n) == [i \in 1..n |-> " "]

\* min_indent = 999999  # arbitrary large number
ArbitraryLargeNumber == 999999

RECURSIVE collect_lines(_)
\* the first loop: lines.append(line) for every line of every argument
collect_lines(a) ==
    IF a = <<>> THEN <<>> ELSE split(Head(a), "\n") \o collect_lines(Tail(a))

RECURSIVE min_indent_of(_, _)
\* the first loop: min_indent over the lines that are not blank
min_indent_of(lines, m) ==
    IF lines = <<>> THEN m
    ELSE min_indent_of(Tail(lines),
             IF lstrip(Head(lines)) # <<>>
             THEN (IF Len(Head(lines)) - Len(lstrip(Head(lines))) < m
                   THEN Len(Head(lines)) - Len(lstrip(Head(lines))) ELSE m)
             ELSE m)

\* a faulty variant: every line is stripped on both sides, its indentation lost
normalized_line_flat(line, min_indent) == rstrip(lstrip(line))

\* a faulty variant: every line that is not blank is indented by one more space
normalized_line_pushed(line, min_indent) ==
    IF lstrip(line) # <<>>
    THEN Spaces(Len(line) - Len(lstrip(line)) - min_indent + 1) \o rstrip(lstrip(line))
    ELSE <<>>

\* the body of the second loop: what is appended to normalized_lines
normalized_line(line, min_indent) ==
    IF lstrip(line) # <<>>
    THEN Spaces(Len(line) - Len(lstrip(line)) - min_indent) \o rstrip(lstrip(line))
    ELSE <<>>

wrap_prompt(a) ==
    LET lines == collect_lines(a)
        min_indent == min_indent_of(lines, ArbitraryLargeNumber)
    IN join("\n", [i \in 1..Len(lines) |-> normalized_line(lines[i], min_indent)])

\* the strings of at most n characters
StringsUpTo(n) == UNION {[1..k -> Chars] : k \in 0..n}

\* where a string of n characters is cut into k pieces: the ends of the
\* first k - 1 of them
Cuts(n, k) == {c \in [1..(k - 1) -> 0..n] : \A i \in 1..(k - 2) : c[i] <= c[i + 1]}

\* the k pieces of s cut at c
Pieces(s, k, c) ==
    [i \in 1..k |-> SubSeq(s, (IF i = 1 THEN 0 ELSE c[i - 1]) + 1,
                              IF i = k THEN Len(s) ELSE c[i])]

\* wrap_prompt(*args)
call_wrap_prompt ==
    /\ wrapped = NotReturned
    /\ wrapped' = wrap_prompt(args)
    /\ UNCHANGED <<app_state, request_state, in_flight, client_state, args, rewrapped>>

\* wrap_prompt(wrap_prompt(*args))
call_wrap_prompt_again ==
    /\ wrapped # NotReturned
    /\ rewrapped = NotReturned
    /\ rewrapped' = wrap_prompt(<<wrapped>>)
    /\ UNCHANGED <<app_state, request_state, in_flight, client_state, args, wrapped>>

\* wrap_prompt is called with no argument at all, or with up to MaxArgs
\* strings of at most MaxChars characters together
WrapPromptInit ==
    /\ environ = Environ(Absent, Absent, Absent, Absent, Absent, Absent, JStr("fake-key"), Absent)
    /\ Created /\ ClientIdle
    /\ \E k \in 0..MaxArgs :
          \E s \in StringsUpTo(IF k = 0 THEN 0 ELSE MaxChars) :
             \E c \in Cuts(Len(s), k) : args = Pieces(s, k, c)
    /\ wrapped = NotReturned
    /\ rewrapped = NotReturned

WrapPromptNext == call_wrap_prompt \/ call_wrap_prompt_again

WrapPromptSpec == WrapPromptInit /\ [][WrapPromptNext]_vars

(***************************************************************************)
(* The REST client (client/rest.py): the graph node that posts the state's *)
(* messages to the service                                                 *)
(***************************************************************************)
MaxMessages == 2

\* HumanMessage(content=...), AIMessage(content=...)
HumanMessage(content) == JObj(<<"type", "content">>, <<JStr("human"), content>>)
AIMessage(content) == JObj(<<"type", "content">>, <<JStr("ai"), content>>)

\* the state update the node returns
StateUpdate(messages) == JObj(<<"messages">>, <<messages>>)

\* json.dumps(error_msg) for the error_msg of an except clause (the text of
\* the exception and the stack trace of the generic clause are not modelled)
ErrorContent(error, cls) ==
    JText(json_dumps(JObj(<<"error", "exception">>, <<JStr(error), JStr(cls)>>)))

\* d.get(key, default) of a dict
DictGet(d, key, default) == IF HasKey(d, key) THEN Get(d, key) ELSE default

\* decode_response: the fields of the response, or {"error": ...} when
\* reading them raises (response_data or its output is no dict)
decode_response(response_data) ==
    IF ~IsDict(response_data) THEN JObj(<<"error">>, <<JStr("Failed to decode response")>>)
    ELSE IF ~IsDict(DictGet(response_data, "output", JObj(<<>>, <<>>)))
    THEN JObj(<<"error">>, <<JStr("Failed to decode response")>>)
    ELSE JObj(<<"agent_id", "messages", "model", "metadata">>,
              <<DictGet(response_data, "agent_id", JStr("Unknown")),
                DictGet(DictGet(response_data, "output", JObj(<<>>, <<>>)), "messages", JNull),
                DictGet(response_data, "model", JStr("Unknown")),
                DictGet(response_data, "metadata", JObj(<<>>, <<>>))>>)

\* what session.post comes to: an exception it raises, or a response with a
\* status and a body (Absent: a body that is no JSON)
PostRaises(cls) == <<"raises", cls>>
PostResponse(status_code, data) == <<"response", status_code, data>>

\* the try block from the response on: raise_for_status(), response.json(),
\* decode_response, return; ends in the exception raised or the value returned
try_response(result) ==
    IF result[1] = "raises" THEN <<"raise", result[2]>>
    ELSE IF result[2] >= 400 THEN <<"raise", "HTTPError">>
    ELSE IF result[3] = Absent THEN <<"raise", "JSONDecodeError">>
    ELSE <<"return", StateUpdate(DictGet(decode_response(result[3]), "messages", JList(<<>>)))>>

\* the except clauses in their order, and the return after the finally
\* clause for the generic one (requests' JSONDecodeError is a RequestException)
client_except_clauses(res) ==
    IF res[1] = "return" THEN res
    ELSE CASE res[2] \in {"Timeout", "ConnectionError"} ->
                <<"return", StateUpdate(JList(<<HumanMessage(
                    ErrorContent("Connection timeout or failure", res[2]))>>))>>
           [] res[2] = "HTTPError" ->
                <<"return", StateUpdate(JList(<<HumanMessage(
                    ErrorContent("HTTP request failed", res[2]))>>))>>
           [] res[2] \in {"RequestException", "JSONDecodeError"} ->
                <<"return", StateUpdate(JList(<<HumanMessage(
                    ErrorContent("Request failed", res[2]))>>))>>
           [] OTHER ->
                <<"return", StateUpdate(JList(<<AIMessage(
                    ErrorContent("Unexpected failure", res[2]))>>))>>

\* the contents of the messages in the state: the serialisation of a
\* ReviewRequest, plain text, and a truncated JSON document
ClientContents ==
    {JText(json_dumps(GoodEmbedded)), JStr("please review"),
     JText(<<P("{"), TStr("context_files"), P(":")>>)}

\* what the server, or the network on the way to it, does with a POST
PostResults ==
    {PostRaises(cls) : cls \in {"Timeout", "ConnectionError", "RequestException", "RuntimeError"}}
    \cup {PostResponse(st, d) :
            st \in {200, 422, 500},
            d \in {Absent, JList(<<>>), JObj(<<"output">>, <<JNull>>),
                   JObj(<<"detail">>, <<JStr("Validation failed: ")>>),
                   ReviewResponse("runs", JObj(<<>>, <<>>), JList(<<>>))}}

\* node_remote_request_stateless(state): if not state["messages"]: return ...
node_checks_messages ==
    /\ client_pc = "called"
    /\ IF state_messages = <<>>
       THEN /\ node_result' = <<"return", StateUpdate(JList(<<HumanMessage(
                                    JStr("Error: No messages in state"))>>))>>
            /\ client_pc' = "returned"
       ELSE /\ node_result' = node_result
            /\ client_pc' = "log_query"
    /\ UNCHANGED <<app_state, request_state, in_flight, prompt_state,
                   state_messages, session, posts, http_result>>

\* query = state["messages"][-1].content
\* logger.info({"event": "sending_request", "query": json.loads(query)})
node_logs_query ==
    /\ client_pc = "log_query"
    /\ IF load_review_request_data(state_messages[Len(state_messages)]).kind = "ok"
       THEN /\ node_result' = node_result
            /\ client_pc' = "open_session"
       ELSE /\ node_result' =
                  <<"raise", load_review_request_data(state_messages[Len(state_messages)]).cls>>
            /\ client_pc' = "raised"
    /\ UNCHANGED <<app_state, request_state, in_flight, prompt_state,
                   state_messages, session, posts, http_result>>

\* session = requests.Session()
node_opens_session ==
    /\ client_pc = "open_session"
    /\ session' = "open"
    /\ client_pc' = "post"
    /\ UNCHANGED <<app_state, request_state, in_flight, prompt_state,
                   state_messages, posts, http_result, node_result>>

\* response = session.post(REMOTE_SERVER_URL, headers=headers, json=payload, timeout=10)
session_post(result) ==
    /\ client_pc = "post"
    /\ posts' = posts + 1
    /\ http_result' = result
    /\ client_pc' = "posted"
    /\ UNCHANGED <<app_state, request_state, in_flight, prompt_state,
                   state_messages, session, node_result>>

\* the rest of the try statement up to its finally clause: the value the
\* node is about to return
node_handles_result ==
    /\ client_pc = "posted"
    /\ node_result' = client_except_clauses(try_response(http_result))
    /\ client_pc' = "finally"
    /\ UNCHANGED <<app_state, request_state, in_flight, prompt_state,
                   state_messages, session, posts, http_result>>

\* finally: session.close(); then the node returns
node_finally ==
    /\ client_pc = "finally"
    /\ session' = "closed"
    /\ client_pc' = "returned"
    /\ UNCHANGED <<app_state, request_state, in_flight, prompt_state,
                   state_messages, posts, http_result, node_result>>

\* the graph invokes the node on a state of up to MaxMessages messages
ClientInit ==
    /\ environ = Environ(Absent, Absent, Absent, Absent, Absent, Absent, JStr("fake-key"), Absent)
    /\ Created /\ PromptIdle
    /\ state_messages \in SeqsUpTo(ClientContents, MaxMessages)
    /\ client_pc = "called"
    /\ session = "none"
    /\ posts = 0
    /\ http_result = <<"none">>
    /\ node_result = <<"none">>

ClientNext ==
    \/ node_checks_messages
    \/ node_logs_query
    \/ node_opens_session
    \/ \E result \in PostResults : session_post(result)
    \/ node_handles_result
    \/ node_finally

ClientSpec == ClientInit /\ [][ClientNext]_vars

(***************************************************************************)
(* Properties                                                              *)
(***************************************************************************)
\* the request passed FastAPI's validation of the body and the handler ran
HandlerEntered == pc \notin {"idle", "handler"} /\ BodyErrors(route, body) = <<>>

\* the body carries a first message whose content is a str
HasFirstContent ==
    /\ IsDict(body) /\ IsDict(Attr(body, "input")) /\ HasKey(Attr(body, "input"), "messages")
    /\ IsList(Get(Attr(body, "input"), "messages"))
    /\ Get(Attr(body, "input"), "messages").items # <<>>
    /\ IsDict(Get(Attr(body, "input"), "messages").items[1])
    /\ HasKey(Get(Attr(body, "input"), "messages").items[1], "content")
    /\ IsStr(Get(Get(Attr(body, "input"), "messages").items[1], "content"))

FirstContent == Get(Get(Attr(body, "input"), "messages").items[1], "content")

\* output.messages[0].content of a response body
OutputContent(b) == Get(Get(Get(b, "output"), "messages").items[1], "content")

\* the positions of the comments anchored to a line, and the k-th of them
KeptIdx(issues) == {i \in 1..Len(issues) : issues[i].line_number # 0}
NthKept(issues, k) ==
    CHOOSE i \in KeptIdx(issues) : Cardinality({j \in KeptIdx(issues) : j < i}) = k - 1

\* a parsed JSON object is this comment: its four fields and nothing else
IsCommentJson(v, c) ==
    /\ IsDict(v) /\ Len(v.keys) = 4
    /\ HasKey(v, "filename") /\ Get(v, "filename") = JStr(c.filename)
    /\ HasKey(v, "line_number") /\ Get(v, "line_number") = JInt(c.line_number)
    /\ HasKey(v, "comment") /\ Get(v, "comment") = JStr(c.comment)
    /\ HasKey(v, "status") /\ Get(v, "status") = JStr(c.status)

\* C1: JSON-parsing output.messages[0].content of a 200 response of POST /runs
\* yields exactly the chain's comments with line_number # 0 (negative ones
\* kept), fields unchanged, in their original relative order.
C1_RoundTrip ==
    (pc = "done" /\ route = "runs" /\ outcome.status = 200) =>
        /\ OutputContent(outcome.body).t = "text"
        /\ LET parsed == json_loads(OutputContent(outcome.body).toks) IN
           /\ parsed.ok
           /\ IsList(parsed.val)
           /\ Len(parsed.val.items) = Cardinality(KeptIdx(response.issues))
           /\ \A k \in 1..Len(parsed.val.items) :
                 k <= Cardinality(KeptIdx(response.issues)) =>
                 IsCommentJson(parsed.val.items[k],
                               response.issues[NthKept(response.issues, k)])

\* a 200 response of POST /runs to a chain result that had a line-0 comment
\* dropped from in front of a kept comment with a negative line
C1_Witness ==
    /\ pc = "done" /\ route = "runs" /\ outcome.status = 200
    /\ Len(response.issues) = 2
    /\ response.issues[1].line_number = 0
    /\ response.issues[2].line_number < 0

\* C2: a first message whose content is not valid JSON ends in 422, not 500,
\* and the chain is not invoked (stated as the claim has it; the handlers
\* answer 500).
C2_InvalidJsonIs422 ==
    (pc = "done" /\ HandlerEntered /\ code_reviewer_chain = "chain" /\ HasFirstContent
        /\ (FirstContent.t = "str" \/ ~json_loads(FirstContent.toks).ok)) =>
        (outcome.status = 422 /\ llm_calls = 0)

\* the chain was invoked and raised
ChainRaised == pc = "done" /\ llm_calls > 0 /\ response = Unset

\* C3: when the chain raises, the request ends with 500 and the generic
\* INTERNAL_ERROR_MESSAGE, never the exception object, as detail (stated as the
\* claim has it; the handlers put the exception object there).
C3_GenericMessageOnUpstreamFailure ==
    ChainRaised =>
        (outcome.status = 500 /\ outcome.detail = DetailStr(INTERNAL_ERROR_MESSAGE))

\* the validated ReviewRequest has an empty context_files, changes or
\* static_analyzer_output
HasEmptyField(rr) ==
    \/ rr.context_files.items = <<>>
    \/ rr.changes.items = <<>>
    \/ rr.static_analyzer_output \in {JNull, JStr("")}

\* C4: a decoded ReviewRequest with an empty context_files, changes or
\* static_analyzer_output is rejected with 422 and the chain is not invoked
\* (stated as the claim has it; the handlers carry the check commented out and
\* pass the request on).
C4_RejectOnEmpty ==
    (review_request.t = "ReviewRequest" /\ HasEmptyField(review_request)) =>
        (llm_calls = 0 /\ (pc = "done" => outcome.status = 422))

\* the envelope's input is no mapping, or a mapping without "messages"
MalformedInput ==
    IsDict(body) /\ (~IsDict(Attr(body, "input")) \/ ~HasKey(Attr(body, "input"), "messages"))

\* C5: an envelope whose input is not a mapping, or a mapping without the key
\* "messages", is rejected with 422 (by the body model, or by the handler with
\* its "Invalid input format" detail) and the chain is not invoked.
C5_MalformedInputIs422 ==
    (pc = "done" /\ MalformedInput) =>
        /\ outcome.status = 422
        /\ llm_calls = 0
        /\ (BodyErrors(route, body) = <<>> => outcome.detail = DetailStr(INVALID_INPUT_MESSAGE))

\* the handler of POST /runs rejected an input that is a mapping without
\* "messages"
C5_Witness ==
    /\ pc = "done" /\ route = "runs"
    /\ IsDict(Attr(body, "input")) /\ ~HasKey(Attr(body, "input"), "messages")
    /\ outcome = Failure(422, DetailStr(INVALID_INPUT_MESSAGE))

\* v is a list of JSON objects
IsListOfObjects(v) == v.t = "list" /\ \A i \in 1..Len(v.items) : v.items[i].t = "obj"

\* a JSON document of the ReviewRequest shape: an object with context_files and
\* changes, lists of objects, and static_analyzer_output, a string or null
MatchesReviewRequestShape(v) ==
    /\ v.t = "obj"
    /\ \A k \in {"context_files", "changes", "static_analyzer_output"} : HasKey(v, k)
    /\ IsListOfObjects(Get(v, "context_files"))
    /\ IsListOfObjects(Get(v, "changes"))
    /\ Get(v, "static_analyzer_output").t \in {"null", "str"}

\* the content of the first message is the serialisation of a JSON value and
\* the handler got to it
DecodesEmbedded ==
    HandlerEntered /\ code_reviewer_chain = "chain" /\ embedded # Absent

\* C6: valid JSON that does not match the ReviewRequest shape ends in 422 with
\* the validation errors in the detail, and the chain is not invoked.
C6_SchemaMismatchIs422 ==
    (pc = "done" /\ DecodesEmbedded /\ ~MatchesReviewRequestShape(embedded)) =>
        /\ outcome.status = 422
        /\ outcome.detail.kind = "str"
        /\ outcome.detail.text = "Validation failed: "
        /\ outcome.detail.errors # <<>>
        /\ \A i \in 1..Len(outcome.detail.errors) :
              outcome.detail.errors[i].loc \in
                  {"", "context_files", "changes", "static_analyzer_output"}
        /\ llm_calls = 0

\* a request whose embedded JSON lacks static_analyzer_output was answered 422
\* with that field named in the detail
C6_Witness ==
    /\ pc = "done" /\ DecodesEmbedded /\ embedded.t = "obj"
    /\ ~HasKey(embedded, "static_analyzer_output")
    /\ outcome.status = 422
    /\ outcome.detail.errors = <<VErr("static_analyzer_output", "missing")>>

\* the embedded JSON is a ReviewRequest with a single added or removed change
\* and a non-empty analyzer text
SingleChangeRequest(v) ==
    /\ MatchesReviewRequestShape(v)
    /\ Len(Get(v, "changes").items) = 1
    /\ HasKey(Get(v, "changes").items[1], "status")
    /\ Get(Get(v, "changes").items[1], "status") \in {JStr("added"), JStr("removed")}
    /\ Get(v, "static_analyzer_output").t = "str"
    /\ Get(v, "static_analyzer_output").s # ""

\* C7: for a well-formed envelope carrying a JSON ReviewRequest with a single
\* added/removed change and a non-empty static_analyzer_output, decoding and
\* validation succeed and the ReviewRequest's three fields equal the embedded
\* JSON's.
C7_DecodeValidate ==
    (DecodesEmbedded /\ SingleChangeRequest(embedded)) =>
        /\ review_request.t = "ReviewRequest"
        /\ review_request.context_files = Get(embedded, "context_files")
        /\ review_request.changes = Get(embedded, "changes")
        /\ review_request.static_analyzer_output = Get(embedded, "static_analyzer_output")
        /\ (pc = "done" => outcome.status # 422)

\* such a request, with two context files and a removed change, was decoded
C7_Witness ==
    /\ DecodesEmbedded /\ SingleChangeRequest(embedded)
    /\ Len(Get(embedded, "context_files").items) = 2
    /\ Get(Get(embedded, "changes").items[1], "status") = JStr("removed")
    /\ review_request.t = "ReviewRequest"

\* the embedded JSON is well formed but for static_analyzer_output, which is
\* this value
AnalyzerOutputIs(v, sao) ==
    /\ v.t = "obj"
    /\ \A k \in {"context_files", "changes", "static_analyzer_output"} : HasKey(v, k)
    /\ IsListOfObjects(Get(v, "context_files"))
    /\ IsListOfObjects(Get(v, "changes"))
    /\ Get(v, "static_analyzer_output") = sao

PayloadHas(payload, field) ==
    /\ IsDict(payload) /\ HasKey(payload, field)
    /\ IsDict(Get(payload, field)) /\ HasKey(Get(payload, field), field \o "value")
PayloadValue(payload, field) == Get(Get(payload, field), field \o "value")

\* change i of the payload is change i of the embedded JSON, field by field
SameChange(a, b) ==
    /\ IsDict(a)
    /\ \A k \in {"filename", "start_line", "changed_code", "status"} :
          HasKey(a, k) /\ HasKey(b, k) /\ Get(a, k) = Get(b, k)

\* C9: the payload passed to the chain carries all context files, every change
\* with its filename, start_line, changed_code and status unchanged and in the
\* same order, and the analyzer text: nothing of the request is dropped or
\* altered.
C9_PayloadComplete ==
    (llm_calls > 0 /\ DecodesEmbedded) =>
        /\ \A f \in {"files", "changes", "static_analyzer_output"} : PayloadHas(llm_payload, f)
        /\ PayloadValue(llm_payload, "files") = Get(embedded, "context_files")
        /\ IsList(PayloadValue(llm_payload, "changes"))
        /\ Len(PayloadValue(llm_payload, "changes").items) = Len(Get(embedded, "changes").items)
        /\ \A i \in 1..Len(Get(embedded, "changes").items) :
              i <= Len(PayloadValue(llm_payload, "changes").items) =>
              SameChange(PayloadValue(llm_payload, "changes").items[i],
                         Get(embedded, "changes").items[i])
        /\ IsList(PayloadValue(llm_payload, "static_analyzer_output"))
        /\ \E i \in 1..Len(PayloadValue(llm_payload, "static_analyzer_output").items) :
              PayloadValue(llm_payload, "static_analyzer_output").items[i]
                  = Get(embedded, "static_analyzer_output")

\* the chain is called with a removed change followed by an added one
C9_Witness ==
    /\ pc = "invoking" /\ llm_calls = 1 /\ DecodesEmbedded
    /\ Len(Get(embedded, "changes").items) = 2
    /\ Get(Get(embedded, "changes").items[1], "status") = JStr("removed")
    /\ Get(Get(embedded, "changes").items[2], "status") = JStr("added")
    /\ Get(embedded, "context_files").items # <<>>
    /\ Get(embedded, "static_analyzer_output") = AnalyzerText

\* a step of the handler: from where it stands to a later place. Between the
\* receipt of a request and its response every step of Next is one, and one is
\* always possible.
HandlerProgress ==
    /\ pc \in {"handler", "invoking", "returned"}
    /\ pc' \in {"invoking", "returned", "done"}
    /\ pc' # pc

\* the handler runs to its end once called, and the call of the chain comes
\* back (with a value or an exception)
FairSpec == Spec /\ WF_pc(HandlerProgress)

\* a terminal outcome: 200 with a response body, or 422 or 500 with a detail
TerminalOutcome ==
    \/ outcome.status = 200 /\ DOMAIN outcome = {"status", "body"} /\ IsDict(outcome.body)
    \/ outcome.status \in {422, 500} /\ DOMAIN outcome = {"status", "detail"}

\* C10: every request reaches exactly one terminal outcome and then stops:
\* a request has no outcome until it is done and then has 200 with a response
\* envelope or an error with status 422 or 500; a finished request takes no
\* further step of the handler and its outcome stays as it is until the
\* request is gone; every received request finishes.
C10_OneTerminalOutcome ==
    /\ [](IF pc = "done" THEN TerminalOutcome ELSE outcome = NoOutcome)
    /\ [][pc = "done" => (pc' = "idle" /\ outcome' = NoOutcome /\ llm_calls' = 0)]_request_state
    /\ [](pc \in {"handler", "invoking", "returned"} => <>(pc = "done"))

\* a request ended in 500 after the chain was invoked, another outcome than the
\* 422 and 200 the chain-free and the successful requests end in
C10_Witness ==
    pc = "done" /\ outcome.status = 500 /\ llm_calls = 1 /\ response = Unset

\* C11: the chain is invoked at most once per request: a request that is in the
\* call or past it has made one call, a request answered 200 has made exactly
\* one, and after the chain raised there is no second call.
C11_AtMostOneInvoke ==
    /\ llm_calls \in {0, 1}
    /\ (pc \in {"invoking", "returned"}) => llm_calls = 1
    /\ (pc = "done" /\ outcome.status = 200) => llm_calls = 1
    /\ ChainRaised => (llm_calls = 1 /\ outcome.status = 500)

\* a request to POST /runs/wait ended after its one call of the chain raised
C11_Witness ==
    pc = "done" /\ route = "runs_wait" /\ llm_calls = 1 /\ response = Unset
        /\ outcome.status = 500

\* C12: fail fast: a request that ends in 422 has not invoked the chain, and
\* once the chain is invoked the request never ends in 422.
C12_FailFast ==
    /\ (pc = "done" /\ outcome.status = 422) => (llm_calls = 0 /\ llm_payload = Unset)
    /\ llm_calls > 0 => outcome.status # 422

\* the handler answered 422 to a request whose body FastAPI had accepted
C12_Witness ==
    pc = "done" /\ outcome.status = 422 /\ BodyErrors(route, body) = <<>>
        /\ llm_calls = 0 /\ embedded # Absent

\* the model name the deployment is configured with
ConfiguredModel == llm.model

\* C13: on a successful POST /runs the response's agent_id is the request's
\* when that is present and non-empty and "default-agent" otherwise, and the
\* response's model is the request's when present and non-empty and the
\* configured default model otherwise (stated as the claim has it; the handler
\* falls back to the literal "gpt-4o" whatever model is configured).
C13_DefaultsFromConfiguration ==
    (pc = "done" /\ route = "runs" /\ outcome.status = 200) =>
        /\ Get(outcome.body, "agent_id") =
              (IF Attr(body, "agent_id") \notin {JNull, JStr("")}
               THEN Attr(body, "agent_id") ELSE JStr("default-agent"))
        /\ Get(outcome.body, "model") =
              (IF Attr(body, "model") \notin {JNull, JStr("")}
               THEN Attr(body, "model") ELSE ConfiguredModel)

\* every comment the chain returned has line_number 0 (or it returned none)
NoAnchoredComment ==
    response.t = "ReviewComments"
        /\ \A i \in 1..Len(response.issues) : response.issues[i].line_number = 0

\* C14: when every comment of the chain has line_number 0, or it returns no
\* comment, POST /runs still answers 200 and output.messages is exactly one
\* message, of role "assistant", whose content is the string "[]"; POST
\* /runs/wait answers 200 with the same content in its one output message.
C14_EmptyListEncoded ==
    (pc = "done" /\ NoAnchoredComment) =>
        /\ outcome.status = 200
        /\ route = "runs" =>
              Get(Get(outcome.body, "output"), "messages") =
                  JList(<<JObj(<<"role", "content">>,
                               <<JStr("assistant"), JText(<<P("["), P("]")>>)>>)>>)
        /\ route = "runs_wait" =>
              /\ Len(Get(Get(outcome.body, "output"), "messages").items) = 1
              /\ OutputContent(outcome.body) = JText(<<P("["), P("]")>>)

\* POST /runs answered a chain result of two comments, both on line 0
C14_Witness ==
    /\ pc = "done" /\ route = "runs" /\ outcome.status = 200
    /\ NoAnchoredComment /\ Len(response.issues) = 2

\* the body of a POST /runs lacks one of input, model and route
LacksRequiredField ==
    route = "runs" /\ IsDict(body)
        /\ \E k \in {"input", "model", "route"} : ~HasKey(body, k)

\* C15: a body that lacks input, model or route (the empty body {} among
\* them) never yields 200 on POST /runs: it is answered 422 or a server error,
\* the handler is not entered and the chain is not invoked.
C15_MissingFieldsNever200 ==
    LacksRequiredField =>
        /\ pc \in {"idle", "done"}
        /\ outcome.status \in {422, 500}
        /\ llm_calls = 0

\* the empty body {} was answered 422
C15_Witness ==
    pc = "done" /\ route = "runs" /\ body = JObj(<<>>, <<>>) /\ outcome.status = 422

\* the Azure credential set is complete: API key, endpoint, deployment name
\* and API version are all configured
AzureCredentialsComplete ==
    /\ settings.AZURE_OPENAI_API_KEY \notin {JNull, JStr("")}
    /\ settings.AZURE_OPENAI_ENDPOINT \notin {JNull, JStr("")}
    /\ settings.AZURE_OPENAI_DEPLOYMENT_NAME \notin {JNull, JStr("")}
    /\ settings.AZURE_OPENAI_API_VERSION \notin {JNull, JStr("")}

\* C19: initialize_chain builds exactly one of the two backends, Azure if and
\* only if the Azure credential set is complete and OpenAI otherwise; a
\* temperature of 0 does not change the choice (stated as the claim has it;
\* the code also requires a non-zero temperature for Azure).
C19_BackendByCredentials ==
    llm # Unset =>
        /\ llm.backend \in {"azure", "openai"}
        /\ llm.backend = "azure" <=> AzureCredentialsComplete

\* C20: the lifespan stores the chain before it creates the AGP server task
\* and before the application serves: whenever the AGP task exists, the
\* application serves or a request is in a handler, app.state holds the chain
\* initialize_chain built.
C20_ChainSetBeforeServing ==
    (agp # "none" \/ started \/ pc # "idle") =>
        (code_reviewer_chain = "chain" /\ llm # Unset)

\* a handler is in its call of the chain while the AGP server serves too
C20_Witness ==
    started /\ agp = "serving" /\ pc = "invoking" /\ code_reviewer_chain = "chain"


\* the fields of request i in flight
SlotPc(i) == in_flight[i][1]
SlotRoute(i) == in_flight[i][2]
SlotBody(i) == in_flight[i][3]
SlotReviewRequest(i) == in_flight[i][4]
SlotPayload(i) == in_flight[i][5]
SlotCalls(i) == in_flight[i][6]
SlotResponse(i) == in_flight[i][7]
SlotOutcome(i) == in_flight[i][8]

\* requests i and j met the same LLM outcome: the chain returned the same
\* value to both or raised for both; a request that never called the chain
\* is compatible with every LLM outcome
SameLLMOutcome(i, j) ==
    SlotCalls(i) = 0 \/ SlotCalls(j) = 0 \/ SlotResponse(i) = SlotResponse(j)

\* C16: POST /runs/wait has the semantics of POST /runs: the same envelope
\* sent to both with the same LLM outcome ends in the same outcome class, and
\* on success both output messages carry the same JSON comment list.
C16_SameSemantics ==
    \A i, j \in 1..MaxInFlight :
        (/\ SlotPc(i) = "done" /\ SlotPc(j) = "done"
         /\ SlotRoute(i) = "runs" /\ SlotRoute(j) = "runs_wait"
         /\ SlotBody(i) = SlotBody(j)
         /\ SameLLMOutcome(i, j))
        => /\ SlotOutcome(i).status = SlotOutcome(j).status
           /\ SlotOutcome(i).status = 200 =>
                 OutputContent(SlotOutcome(i).body) = OutputContent(SlotOutcome(j).body)


\* the outcomes of request i served alone, the chain set at startup and
\* giving it the LLM result it got here; the run record of /runs/wait is
\* stamped with the time of the answer
SoloOutcomes(i) ==
    IF BodyErrors(SlotRoute(i), SlotBody(i)) # <<>>
    THEN {RequestValidationError(BodyErrors(SlotRoute(i), SlotBody(i)))}
    ELSE LET res == except_clauses(try_block(SlotRoute(i), SlotBody(i), "chain")) IN
         IF res.kind = "http" THEN {Failure(res.status, res.detail)}
         ELSE IF SlotResponse(i) = Unset
              THEN {Failure(except_clauses(Exc("LLMError")).status,
                            except_clauses(Exc("LLMError")).detail)}
              ELSE {handler_response(SlotRoute(i), SlotBody(i), SlotResponse(i), now) :
                        now \in 1..MaxClock}

\* C17: concurrent requests are independent: in every interleaving each
\* request ends in the outcome it gets when served alone with the same LLM
\* result, and once the application has started no step writes
\* app.state.code_reviewer_chain.
C17_ConcurrentIndependence ==
    /\ [](\A i \in 1..MaxInFlight : SlotPc(i) = "done" => SlotOutcome(i) \in SoloOutcomes(i))
    /\ [][started => code_reviewer_chain' = code_reviewer_chain]_vars

\* two requests have been in their handlers at once, both called the chain,
\* and both are answered
C17_Witness ==
    /\ SlotPc(1) = "done" /\ SlotPc(2) = "done"
    /\ SlotCalls(1) = 1 /\ SlotCalls(2) = 1
    /\ SlotOutcome(1).status = 200 /\ SlotOutcome(2).status = 200
    /\ SlotBody(1) # SlotBody(2)


\* C18: prompt assembly is deterministic and independent of the request
\* around the content: two requests with equal ReviewRequest content hand
\* equal payloads to the chain, whatever the agent_id, model, route and
\* metadata of their envelopes and whatever was served before them.
C18_PayloadDependsOnContentOnly ==
    \A i, j \in 1..MaxInFlight :
        (/\ SlotPayload(i) # Unset /\ SlotPayload(j) # Unset
         /\ SlotReviewRequest(i) = SlotReviewRequest(j))
        => SlotPayload(i) = SlotPayload(j)

\* two requests with the same content in envelopes that differ in agent_id,
\* model and metadata, sent to different endpoints, have both called the chain
C18_Witness ==
    /\ SlotPayload(1) # Unset /\ SlotPayload(2) # Unset
    /\ SlotReviewRequest(1) = SlotReviewRequest(2)
    /\ SlotRoute(1) # SlotRoute(2)
    /\ Attr(SlotBody(1), "agent_id") # Attr(SlotBody(2), "agent_id")
    /\ Attr(SlotBody(1), "model") # Attr(SlotBody(2), "model")
    /\ Attr(SlotBody(1), "metadata") # Attr(SlotBody(2), "metadata")


\* the chain has returned a ReviewComments to the handler
ChainReturnedComments ==
    /\ pc \in {"returned", "done"}
    /\ response # Unset
    /\ response.t = "ReviewComments"

\* C22: filter idempotence: applying the line_number != 0 filter to the
\* already filtered list of comments returns that list, for every list of
\* comments the chain returns.
C22_FilterIdempotent ==
    ChainReturnedComments =>
        filter_nonzero(filter_nonzero(response.issues)) = filter_nonzero(response.issues)

\* a request is answered from a list of which the filter dropped a comment
\* and kept another
C22_Witness ==
    /\ ChainReturnedComments
    /\ pc = "done" /\ outcome.status = 200
    /\ Len(filter_nonzero(response.issues)) >= 1
    /\ Len(filter_nonzero(response.issues)) < Len(response.issues)


\* the newline-split lines of all arguments, and those of the output
InputLines == collect_lines(args)
OutputLines == split(wrapped, "\n")

IsBlank(l) == \A i \in 1..Len(l) : l[i] \in Whitespace

\* the number of whitespace characters a line starts with
Indent(l) == Cardinality({i \in 1..Len(l) : \A j \in 1..i : l[j] \in Whitespace})

\* the line up to its last character that is not whitespace
WithoutTrailing(l) ==
    SubSeq(l, 1, Cardinality({i \in 1..Len(l) : \E j \in i..Len(l) : l[j] \notin Whitespace}))

\* the minimum indentation over the input lines that are not blank
MinIndent ==
    LET ins == {Indent(InputLines[k]) : k \in {j \in 1..Len(InputLines) : ~IsBlank(InputLines[j])}}
    IN IF ins = {} THEN 0 ELSE CHOOSE m \in ins : \A n \in ins : m <= n

\* C21 as stated: the output has one line per input line; a blank line
\* becomes the empty string and every other line is the input line without
\* its trailing whitespace and without its first MinIndent characters.
C21_LinesReduced ==
    wrapped # NotReturned =>
        /\ Len(OutputLines) = Len(InputLines)
        /\ \A k \in 1..Len(InputLines) :
              k <= Len(OutputLines) =>
                 OutputLines[k] =
                    IF IsBlank(InputLines[k]) THEN <<>>
                    ELSE SubSeq(WithoutTrailing(InputLines[k]), MinIndent + 1,
                                Len(WithoutTrailing(InputLines[k])))

\* C21, amended: called with at least one argument, wrap_prompt returns one
\* line per input line, in order; a blank line becomes the empty string and
\* every other line becomes as many spaces as its indentation exceeds the
\* minimum indentation, followed by the line without its leading and
\* trailing whitespace.
C21_LinesNormalized ==
    (wrapped # NotReturned /\ args # <<>>) =>
        /\ Len(OutputLines) = Len(InputLines)
        /\ \A k \in 1..Len(InputLines) :
              OutputLines[k] =
                 IF IsBlank(InputLines[k]) THEN <<>>
                 ELSE Spaces(Indent(InputLines[k]) - MinIndent)
                      \o SubSeq(WithoutTrailing(InputLines[k]), Indent(InputLines[k]) + 1,
                                Len(WithoutTrailing(InputLines[k])))

\* wrap_prompt has returned for two lines of different indentation, the
\* smaller of them not zero
C21_Witness ==
    /\ wrapped # NotReturned
    /\ MinIndent > 0
    /\ \E k \in 1..Len(InputLines) :
          ~IsBlank(InputLines[k]) /\ Indent(InputLines[k]) > MinIndent

\* C30: wrap_prompt is idempotent: applied to its own result it returns that
\* result; and if some input line is not blank, some output line that is not
\* blank has no indentation.
C30_Idempotent ==
    /\ rewrapped # NotReturned => rewrapped = wrapped
    /\ (wrapped # NotReturned /\ \E k \in 1..Len(InputLines) : ~IsBlank(InputLines[k])) =>
          \E k \in 1..Len(OutputLines) : ~IsBlank(OutputLines[k]) /\ Indent(OutputLines[k]) = 0

\* wrap_prompt has been applied to its result, which differs from the input
\* by the indentation it removed
C30_Witness ==
    /\ rewrapped # NotReturned
    /\ MinIndent > 0
    /\ wrapped # join("\n", args)


\* C23: every failure while a request is processed ends as an HTTPException
\* with status 422 or 500 and a message, whatever the chain returns (None
\* included): no other exception leaves the handler.
C23_OnlyHTTPExceptions ==
    (pc = "done" /\ outcome.status # 200) =>
        /\ outcome.status \in {422, 500}
        /\ outcome.detail.kind # "server_error"


\* the content of the first message decoded and passed ReviewRequest validation
PassedValidation == DecodesEmbedded /\ ReviewRequest_model_validate(embedded).ok

\* C24: every request whose first-message content passes ReviewRequest
\* validation reaches the chain exactly once: nothing fails between the
\* validation and the call, also when static_analyzer_output is JSON null.
C24_ValidatedReachesChain ==
    PassedValidation => llm_calls = 1


\* the envelope's input.messages is an empty list
EmptyMessages ==
    /\ IsDict(body) /\ IsDict(Attr(body, "input")) /\ HasKey(Attr(body, "input"), "messages")
    /\ Get(Attr(body, "input"), "messages") = JList(<<>>)

\* C25: an envelope whose input.messages is an empty list never gets a 200
\* and never causes a call of the chain; taking the first message fails and
\* the request ends with 500, not 422.
C25_EmptyMessagesIs500 ==
    EmptyMessages =>
        /\ llm_calls = 0
        /\ pc = "done" => (outcome.status = 500 /\ outcome.detail = DetailExc("IndexError"))

\* a request with an empty list of messages got into its handler and was
\* answered
C25_Witness ==
    EmptyMessages /\ HandlerEntered /\ pc = "done" /\ outcome.status = 500


\* C26: if app.state.code_reviewer_chain is None when a request arrives, the
\* request ends with 500 and the detail "CodeReviewer not initialized" (the
\* HTTPException is raised again as it is, not wrapped by the generic
\* clause), the envelope is not decoded and the chain is not called.
C26_ChainNoneIs500 ==
    (HandlerEntered /\ code_reviewer_chain = "None") =>
        /\ pc = "done"
        /\ outcome = Failure(500, DetailStr("CodeReviewer not initialized"))
        /\ review_request = Unset
        /\ llm_payload = Unset
        /\ llm_calls = 0

\* a request with a valid ReviewRequest in it met a chain that is None
C26_Witness ==
    /\ HandlerEntered /\ code_reviewer_chain = "None" /\ pc = "done"
    /\ embedded # Absent /\ ReviewRequest_model_validate(embedded).ok


\* POST /runs/wait has answered
RunsWaitAnswered == pc = "done" /\ route = "runs_wait"

\* the request's metadata carries an id
HasMetadataId ==
    IsDict(Attr(body, "metadata")) /\ HasKey(Attr(body, "metadata"), "id")

\* C27: every response of POST /runs/wait carries a run record with status
\* success, created_at equal to updated_at, creation the body the handler
\* received, run_id the string form of the request's metadata id (empty
\* without one) and agent_id the request's agent_id (empty without one); a
\* failure is an HTTP error, never a run record with status error.
C27_RunRecord ==
    /\ (RunsWaitAnswered /\ outcome.status = 200) =>
          /\ Get(Get(outcome.body, "run"), "status") = JStr("success")
          /\ Get(Get(outcome.body, "run"), "created_at") =
                Get(Get(outcome.body, "run"), "updated_at")
          /\ Get(Get(outcome.body, "run"), "creation") = SrvRunCreateStateless(body)
          /\ Get(Get(outcome.body, "run"), "run_id") =
                (IF HasMetadataId THEN PyStr(Get(Attr(body, "metadata"), "id")) ELSE JStr(""))
          /\ Get(Get(outcome.body, "run"), "agent_id") =
                (IF IsStr(Attr(body, "agent_id")) THEN Attr(body, "agent_id") ELSE JStr(""))
    /\ (RunsWaitAnswered /\ outcome.status # 200) =>
          (DOMAIN outcome = {"status", "detail"} /\ outcome.status \in {422, 500})

\* POST /runs/wait answered a request that carries a metadata id and an
\* agent_id with a run record
C27_Witness ==
    /\ RunsWaitAnswered /\ outcome.status = 200
    /\ HasMetadataId /\ IsStr(Attr(body, "agent_id"))
    /\ Get(Get(outcome.body, "run"), "run_id") # JStr("")


\* POST /runs has answered with 200
RunsSucceeded == pc = "done" /\ route = "runs" /\ outcome.status = 200

\* C28: on a successful POST /runs the response metadata is a mapping with
\* the single key id; its value is the request's metadata id when the request
\* has metadata with that key, and "default-id" when the metadata is absent,
\* empty or without id; no other key of the request's metadata is copied.
C28_ResponseMetadata ==
    RunsSucceeded =>
        /\ IsDict(Get(outcome.body, "metadata"))
        /\ Get(outcome.body, "metadata").keys = <<"id">>
        /\ Get(Get(outcome.body, "metadata"), "id") =
              (IF HasMetadataId THEN Get(Attr(body, "metadata"), "id") ELSE JStr("default-id"))

\* a request whose metadata carries a key, but not id, has been answered
C28_Witness ==
    /\ RunsSucceeded
    /\ IsDict(Attr(body, "metadata"))
    /\ Attr(body, "metadata").keys # <<>>
    /\ ~HasMetadataId


\* the node is done: it returned, or an exception left it
NodeDone == client_pc \in {"returned", "raised"}

\* C29: node_remote_request_stateless sends at most one POST per invocation
\* (none when the state has no messages), closes the session on every path
\* on which it opened one, and on every path returns a state update with
\* the key "messages".
C29_ClientNode ==
    /\ posts <= 1
    /\ state_messages = <<>> => posts = 0
    /\ NodeDone => session # "open"
    /\ NodeDone => (/\ node_result[1] = "return"
                    /\ HasKey(node_result[2], "messages"))

====
